---- MODULE Spec2Model ----
(***************************************************************************)
(* Historical land-price reconciliation of real_estate_bot:                *)
(*   scripts/import_kokudo_all_years.py  (normalize_address,               *)
(*       extract_records, import_to_db on table land_prices_kokudo)        *)
(*   scripts/archive/old_versions/20_import_historical_kokudo_data.py      *)
(*       (insert_to_database on table land_prices)                         *)
(*   src/converters/address_normalizer.py, kokudo_converter.py             *)
(*   modules/data_aggregator/collectors/land_price_collector.py (fetch)    *)
(*                                                                         *)
(* Text is a sequence of one-character tokens.  The module is ASCII, so a  *)
(* Japanese character is written as a token of its reading:                *)
(*   "tou","kyou","to" = Tokyo-to      "se","ta","gaya","ku" = Setagaya-ku *)
(*   "chou","me" = the block-unit marker (chome)    "ban" = lot marker     *)
(*   "gai" = the character removed by normalize_address line 73            *)
(*   "F0".."F9" = full-width digits, "0".."9" = half-width digits          *)
(*   "-" = ASCII hyphen, "FWH" = U+FF0D, "MINUS" = U+2212, "HYPH" = U+2010 *)
(*   " " = ASCII space, "IDSP" = ideographic space U+3000                  *)
(*   "CHOUON" = the long vowel mark U+30FC, "K1".."K9" = kanji numerals     *)
(*   "dai","aza" = the characters of oaza / aza (section of a village)      *)
(* A nullable column holds <<>> (SQL NULL / Python None) or <<v>>.         *)
(***************************************************************************)
EXTENDS Integers, Sequences, FiniteSets, TLC

VARIABLES
    land_prices_kokudo,   \* committed rows of table land_prices_kokudo
    kokudo_id_seq,        \* next value of the SERIAL sequence of its id column
    land_prices,          \* committed rows of table land_prices (archive importers)
    land_prices_id_seq,   \* next value of the id sequence of land_prices
    converted,            \* LandPriceRecords produced by KokudoLandPriceConverter.convert
    extracted,            \* what extract_records returned last (records of main)
    result,               \* what LandPriceCollector.fetch returned last
    choume_master,        \* rows of table choume (name, code), in choume_code order
    matched,              \* outcome of the last address match of the archive importers
    last,                 \* the last call: its operation, inputs and return value
    main_run,             \* main of import_kokudo_all_years: the year loop and its lists
    sessions,             \* two import runs on their own connections, step by step
    other_order           \* a second database that gets the same years in another order

vars == <<land_prices_kokudo, kokudo_id_seq, land_prices, land_prices_id_seq,
          converted, extracted, result, choume_master, matched, last, main_run,
          sessions, other_order>>

----------------------------------------------------------------------------
(* Nullable values *)

NULL == <<>>

Some(v) == <<v>>

IsNull(x) == x = <<>>

Val(x) == x[1]

----------------------------------------------------------------------------
(* Bounds of the model *)

\* an import call is taken only while the id sequence stays within MaxId
MaxId == 4

\* rows of one year's extract handed to one import call
MaxBatch == 2

----------------------------------------------------------------------------
(* Text helpers *)

Digits == {"0", "1", "2", "3", "4", "5", "6", "7", "8", "9"}

FullWidthDigits == {"F0", "F1", "F2", "F3", "F4", "F5", "F6", "F7", "F8", "F9"}

\* str.maketrans of the ten full-width digits to the half-width ones
TranslateChar(c) ==
    CASE c = "F0" -> "0" [] c = "F1" -> "1" [] c = "F2" -> "2" [] c = "F3" -> "3"
      [] c = "F4" -> "4" [] c = "F5" -> "5" [] c = "F6" -> "6" [] c = "F7" -> "7"
      [] c = "F8" -> "8" [] c = "F9" -> "9" [] OTHER -> c

Translate(s) == [i \in 1..Len(s) |-> TranslateChar(s[i])]

\* does pat occur in s at position i
OccursAt(s, pat, i) ==
    /\ i + Len(pat) - 1 <= Len(s)
    /\ \A k \in 1..Len(pat) : s[i + k - 1] = pat[k]

RECURSIVE FindFrom(_, _, _)
FindFrom(s, pat, i) ==
    IF i + Len(pat) - 1 > Len(s) THEN 0
    ELSE IF OccursAt(s, pat, i) THEN i
    ELSE FindFrom(s, pat, i + 1)

\* the first position at which pat occurs in s (0 when it does not)
Find(s, pat) == FindFrom(s, pat, 1)

\* pat in s
Contains(s, pat) == Find(s, pat) # 0

RECURSIVE Replace(_, _, _)
\* str.replace(pat, by): every non-overlapping occurrence, left to right
Replace(s, pat, by) ==
    IF s = <<>> \/ pat = <<>> THEN s
    ELSE IF OccursAt(s, pat, 1)
    THEN by \o Replace(SubSeq(s, Len(pat) + 1, Len(s)), pat, by)
    ELSE <<Head(s)>> \o Replace(Tail(s), pat, by)

RECURSIVE Split(_, _)
\* str.split(sep) / re.split on a literal: the list of parts
Split(s, sep) ==
    LET i == Find(s, sep)
    IN IF i = 0 THEN <<s>>
       ELSE <<SubSeq(s, 1, i - 1)>> \o Split(SubSeq(s, i + Len(sep), Len(s)), sep)

PrefixOf(p, s) == Len(p) <= Len(s) /\ SubSeq(s, 1, Len(p)) = p

Tokyo == <<"tou", "kyou", "to">>

Setagaya == <<"se", "ta", "gaya", "ku">>

Chome == <<"chou", "me">>

Ban == <<"ban">>

----------------------------------------------------------------------------
(* scripts/import_kokudo_all_years.py: normalize_address *)

HyphenForm(address) ==
    LET parts == Split(address, <<"-">>)
    IN IF Len(parts) = 3
       THEN parts[1] \o Chome \o parts[2] \o Ban \o parts[3]
       ELSE IF Len(parts) = 2
       THEN parts[1] \o Ban \o parts[2]
       ELSE address

normalize_address(address) ==
    IF address = <<>> THEN <<>>
    ELSE LET a1 == Translate(address)
             a2 == Replace(Replace(a1, <<" ">>, <<>>), <<"IDSP">>, <<>>)
             a3 == Replace(a2, Tokyo, <<>>)
             a4 == IF Contains(a3, Setagaya) THEN Split(a3, Setagaya)[2] ELSE a3
             a5 == Replace(Replace(Replace(a4, <<"FWH">>, <<"-">>),
                                   <<"MINUS">>, <<"-">>), <<"HYPH">>, <<"-">>)
             a6 == HyphenForm(a5)
         IN Replace(a6, <<"gai">>, <<>>)

----------------------------------------------------------------------------
(* Raw field values of a survey extract (a GeoDataFrame cell): missing/NaN, *)
(* a string, or a number.                                                  *)

NaN == [t |-> "nan", s |-> <<>>, n |-> 0]

Str(s) == [t |-> "str", s |-> s, n |-> 0]

Num(n) == [t |-> "num", s |-> <<>>, n |-> n]

notna(v) == v.t # "nan"

DigitValue(c) ==
    CASE c = "0" -> 0 [] c = "1" -> 1 [] c = "2" -> 2 [] c = "3" -> 3 [] c = "4" -> 4
      [] c = "5" -> 5 [] c = "6" -> 6 [] c = "7" -> 7 [] c = "8" -> 8 [] c = "9" -> 9

DigitChar(d) ==
    CASE d = 0 -> "0" [] d = 1 -> "1" [] d = 2 -> "2" [] d = 3 -> "3" [] d = 4 -> "4"
      [] d = 5 -> "5" [] d = 6 -> "6" [] d = 7 -> "7" [] d = 8 -> "8" [] d = 9 -> "9"

RECURSIVE DecimalValue(_)
DecimalValue(s) ==
    IF s = <<>> THEN 0
    ELSE 10 * DecimalValue(SubSeq(s, 1, Len(s) - 1)) + DigitValue(s[Len(s)])

RECURSIVE Decimal(_)
\* str(n) of a non-negative integer
Decimal(n) == IF n < 10 THEN <<DigitChar(n)>> ELSE Decimal(n \div 10) \o <<DigitChar(n % 10)>>

\* str(v) of a cell that is not missing
StrOf(v) == IF v.t = "num" THEN Decimal(v.n) ELSE v.s

\* float(v): <<n>>, or <<>> when Python raises ValueError.  The strings of the
\* model that parse are the non-empty runs of half-width digits.
FloatOf(v) ==
    IF v.t = "num" THEN Some(v.n)
    ELSE IF v.s # <<>> /\ \A i \in 1..Len(v.s) : v.s[i] \in Digits
    THEN Some(DecimalValue(v.s))
    ELSE NULL

\* v != '_'
NotUnderscore(v) == ~(v.t = "str" /\ v.s = <<"_">>)

\* v != 0
NotZero(v) == ~(v.t = "num" /\ v.n = 0)

----------------------------------------------------------------------------
(* scripts/import_kokudo_all_years.py: get_file_config, get_field_mapping  *)

FirstYear == 2000

LastYear == 2025

\* config[year]['field_mapping'] of get_file_config
file_config_pattern(year) ==
    CASE year \in 2000..2011 -> "pattern_A"
      [] year \in 2012..2017 -> "pattern_B"
      [] year \in 2018..2021 -> "pattern_C"
      [] year \in 2022..2023 -> "pattern_C_v2"
      [] year \in 2024..2025 -> "pattern_C_v2_2024"

BaseRoles == {"city_code", "city_name", "address", "price", "land_area"}

ExtendedRoles == {"road_direction", "road_width", "nearest_station", "station_distance",
                  "land_use", "building_coverage", "floor_area_ratio"}

\* the roles (keys) of FIELD_MAPPINGS.get(pattern, {})
get_field_mapping(pattern) ==
    CASE pattern \in {"pattern_A", "pattern_B"} -> BaseRoles
      [] pattern \in {"pattern_C", "pattern_C_v2", "pattern_C_v2_2024"} ->
            BaseRoles \cup ExtendedRoles
      [] OTHER -> {}

----------------------------------------------------------------------------
(* scripts/import_kokudo_all_years.py: extract_records *)

PriceThreshold == 10000

PriceSentinels == {<<>>, <<"_">>, <<"f", "a", "l", "s", "e">>, <<"N", "o", "n", "e">>}

AreaSentinels == {<<>>, <<"_">>, <<"f", "a", "l", "s", "e">>}

\* a mutation of ExtractPrice: a price equal to the threshold is scaled too
ExtractPriceInclusive(price_raw) ==
    IF notna(price_raw) /\ StrOf(price_raw) \notin PriceSentinels
    THEN LET f == FloatOf(price_raw)
         IN IF IsNull(f) THEN NULL
            ELSE IF Val(f) <= PriceThreshold THEN Some(Val(f) * 100) ELSE f
    ELSE NULL

\* lines 191-204: the price of a row
ExtractPrice(price_raw) ==
    IF notna(price_raw) /\ StrOf(price_raw) \notin PriceSentinels
    THEN LET f == FloatOf(price_raw)
         IN IF IsNull(f) THEN NULL
            ELSE IF Val(f) < PriceThreshold THEN Some(Val(f) * 100) ELSE f
    ELSE NULL

\* lines 206-214
ExtractLandArea(raw) ==
    IF notna(raw) /\ StrOf(raw) \notin AreaSentinels THEN FloatOf(raw) ELSE NULL

\* str(val) if pd.notna(val) and val != '_' else None
ExtractText(val) == IF notna(val) /\ NotUnderscore(val) THEN Some(StrOf(val)) ELSE NULL

\* the numeric attributes of lines 247-293
ExtractNumber(val) ==
    IF notna(val) /\ NotUnderscore(val) /\ NotZero(val) THEN FloatOf(val) ELSE NULL

HasExtended(year, field_mapping, role) == year >= 2018 /\ role \in field_mapping

\* the record of one row (lines 183-295); a key that extract_records leaves
\* out is given None by the setdefault calls of import_to_db (lines 341-347)
ExtractRecord(row, year, field_mapping, today) ==
    [survey_year |-> year,
     original_address |-> normalize_address(StrOf(row.address)),
     official_price |-> IF "price" \in field_mapping THEN ExtractPrice(row.price) ELSE NULL,
     land_area |-> IF "land_area" \in field_mapping THEN ExtractLandArea(row.land_area)
                   ELSE NULL,
     data_source |-> "chika_kouji",
     latitude |-> row.latitude,
     longitude |-> row.longitude,
     created_at |-> today,
     road_direction |-> IF HasExtended(year, field_mapping, "road_direction")
                        THEN ExtractText(row.road_direction) ELSE NULL,
     road_width |-> IF HasExtended(year, field_mapping, "road_width")
                    THEN ExtractNumber(row.road_width) ELSE NULL,
     nearest_station |-> IF HasExtended(year, field_mapping, "nearest_station")
                         THEN ExtractText(row.nearest_station) ELSE NULL,
     station_distance |-> IF HasExtended(year, field_mapping, "station_distance")
                          THEN ExtractNumber(row.station_distance) ELSE NULL,
     land_use |-> IF HasExtended(year, field_mapping, "land_use")
                  THEN ExtractText(row.land_use) ELSE NULL,
     building_coverage_ratio |-> IF HasExtended(year, field_mapping, "building_coverage")
                                 THEN ExtractNumber(row.building_coverage) ELSE NULL,
     floor_area_ratio |-> IF HasExtended(year, field_mapping, "floor_area_ratio")
                          THEN ExtractNumber(row.floor_area_ratio) ELSE NULL]

\* lines 184-186: a row with a missing or empty address is skipped
RowSkipped(row) == ~notna(row.address) \/ (row.address.t = "str" /\ row.address.s = <<>>)

RECURSIVE extract_records(_, _, _, _)
extract_records(gdf, year, field_mapping, today) ==
    IF gdf = <<>> THEN <<>>
    ELSE LET rest == extract_records(Tail(gdf), year, field_mapping, today)
         IN IF RowSkipped(Head(gdf)) THEN rest
            ELSE <<ExtractRecord(Head(gdf), year, field_mapping, today)>> \o rest

----------------------------------------------------------------------------
(* Table land_prices_kokudo (create_table, lines 82-102) and the write of   *)
(* import_to_db (lines 311-333)                                            *)

\* road_direction VARCHAR(10)
RoadDirectionLen == 10

\* land_use VARCHAR(50)
LandUseLen == 50

\* nearest_station VARCHAR(100)
NearestStationLen == 100

TooLong(x, n) == ~IsNull(x) /\ Len(Val(x)) > n

\* the INSERT raises: a value does not fit the column create_table declares
PgRejects(record) ==
    \/ TooLong(record.road_direction, RoadDirectionLen)
    \/ TooLong(record.land_use, LandUseLen)
    \/ TooLong(record.nearest_station, NearestStationLen)

\* UNIQUE(survey_year, original_address): the arbiter of ON CONFLICT
Conflicts(row, record) ==
    /\ row.survey_year = record.survey_year
    /\ row.original_address = record.original_address

\* the row a plain INSERT creates: id from the sequence, choume_code not in the
\* column list and so NULL
InsertedRow(id, record) ==
    [id |-> id,
     choume_code |-> NULL,
     survey_year |-> record.survey_year,
     official_price |-> record.official_price,
     data_source |-> record.data_source,
     original_address |-> record.original_address,
     land_area |-> record.land_area,
     land_use |-> record.land_use,
     building_coverage_ratio |-> record.building_coverage_ratio,
     floor_area_ratio |-> record.floor_area_ratio,
     road_direction |-> record.road_direction,
     road_width |-> record.road_width,
     nearest_station |-> record.nearest_station,
     station_distance |-> record.station_distance,
     latitude |-> record.latitude,
     longitude |-> record.longitude,
     created_at |-> record.created_at]

\* a mutation of UpdatedRow: the row is replaced by the proposed row, keeping
\* only its id
UpdatedRowAllColumns(row, record) == InsertedRow(row.id, record)

\* DO UPDATE SET ... = EXCLUDED....
UpdatedRow(row, record) ==
    [row EXCEPT !.official_price = record.official_price,
                !.land_area = record.land_area,
                !.land_use = record.land_use,
                !.building_coverage_ratio = record.building_coverage_ratio,
                !.floor_area_ratio = record.floor_area_ratio,
                !.road_direction = record.road_direction,
                !.road_width = record.road_width,
                !.nearest_station = record.nearest_station,
                !.station_distance = record.station_distance]

\* a mutation of Upsert: INSERT without the ON CONFLICT clause taking effect
UpsertAlwaysInserts(rows, id, record) == rows \cup {InsertedRow(id, record)}

\* INSERT ... ON CONFLICT (survey_year, original_address) DO UPDATE on the rows
\* the transaction sees; id is the value nextval hands out for this statement
Upsert(rows, id, record) ==
    IF \E row \in rows : Conflicts(row, record)
    THEN {IF Conflicts(row, record) THEN UpdatedRow(row, record) ELSE row : row \in rows}
    ELSE rows \cup {InsertedRow(id, record)}

RECURSIVE ImportLoop(_, _, _, _, _, _)
\* the for loop of import_to_db (lines 338-356) and the commit of line 358.
\* committed: the rows as of the last commit; working: the rows the open
\* transaction sees.  conn.rollback() discards every write since the last
\* commit; the sequence is not transactional.
ImportLoop(records, committed, working, seq, success_count, error_count) ==
    IF records = <<>>
    THEN [rows |-> working, seq |-> seq,
          success_count |-> success_count, error_count |-> error_count]
    ELSE IF PgRejects(Head(records))
    THEN ImportLoop(Tail(records), committed, committed, seq,
                    success_count, error_count + 1)
    ELSE ImportLoop(Tail(records), committed, Upsert(working, seq, Head(records)),
                    seq + 1, success_count + 1, error_count)

\* a mutation of import_to_db: the table is emptied before the batch is written
ImportAfterTruncate(rows, seq, records) == ImportLoop(records, {}, {}, seq, 0, 0)

\* import_to_db(conn, records): the committed rows, the sequence and the
\* returned (success_count, error_count)
import_to_db(rows, seq, records) ==
    IF records = <<>>
    THEN [rows |-> rows, seq |-> seq, success_count |-> 0, error_count |-> 0]
    ELSE ImportLoop(records, rows, rows, seq, 0, 0)

----------------------------------------------------------------------------
(* The extracts the import runs read *)

Sakura == <<"sakura">>

\* "sakura 1-2-3"
AddrHyphen == Sakura \o <<"1", "-", "2", "-", "3">>

\* the same lot, written with the city prefix, an ideographic space,
\* full-width digits and full-width hyphens
AddrFullWidth ==
    Tokyo \o <<"IDSP">> \o Setagaya \o Sakura \o <<"F1", "FWH", "F2", "FWH", "F3">>

\* another lot of the same block
AddrOtherLot == Sakura \o <<"1", "-", "2", "-", "4">>

\* a lot of another block of the same area
AddrThirdLot == Sakura \o <<"3", "-", "1", "-", "1">>

DirOk == <<"S">>

\* eleven characters: one more than road_direction holds
DirTooLong == <<"S", "S", "S", "S", "S", "S", "S", "S", "S", "S", "S">>

RawRow(address, price, road_direction) ==
    [address |-> Str(address), price |-> price, land_area |-> Num(120),
     road_direction |-> road_direction, road_width |-> NaN,
     nearest_station |-> NaN, station_distance |-> NaN, land_use |-> NaN,
     building_coverage |-> NaN, floor_area_ratio |-> NaN,
     latitude |-> Some(35), longitude |-> Some(139)]

Price650 == Str(<<"6", "5", "0", "0", "0", "0">>)

Price660 == Str(<<"6", "6", "0", "0", "0", "0">>)

ImportYears == {2017, 2018}

\* the rows an extract of the year may hold: a lot, the same lot with a
\* corrected price, the same lot written in full width and with another
\* latitude, another lot, and a row whose road_direction does not fit its
\* column
ExtractRows(year) ==
    IF year >= 2018
    THEN {RawRow(AddrHyphen, Price650, Str(DirOk)),
          RawRow(AddrHyphen, Price660, Str(DirOk)),
          [RawRow(AddrFullWidth, Price650, Str(DirOk)) EXCEPT !.latitude = Some(36)],
          RawRow(AddrOtherLot, Price650, Str(DirOk)),
          RawRow(AddrThirdLot, Price650, Str(DirTooLong))}
    ELSE {RawRow(a, Price650, NaN) : a \in {AddrHyphen, AddrOtherLot}}

\* the extracts of a year: up to MaxBatch rows
Extracts(year) ==
    UNION {[1..n -> ExtractRows(year)] : n \in 1..MaxBatch}

\* date.today() of the run
Days == {1}

\* the runs of the model: a year, its extract, the day of the run, and the
\* records extract_records returns for them (main, line 517)
YearRuns(year) ==
    {[year |-> year, gdf |-> gdf, today |-> today,
      records |-> extract_records(gdf, year,
                                  get_field_mapping(file_config_pattern(year)), today)] :
        gdf \in Extracts(year), today \in Days}

ImportRuns == UNION {YearRuns(year) : year \in ImportYears}

----------------------------------------------------------------------------
(* State machine of the import runs *)

\* no address has been matched yet
NoMatch == [op |-> "none", address |-> <<>>, candidates |-> <<>>, name |-> <<>>,
            code |-> <<>>]

NoCall == [op |-> "none", year |-> 0, records |-> <<>>, success_count |-> 0,
           error_count |-> 0, repeat |-> FALSE]

\* main has not started
NoRun == [pc |-> "none", year |-> 0, attempted |-> <<>>, success_years |-> <<>>,
          failed_years |-> <<>>, total_imported |-> 0, conn |-> "closed"]

\* no import run is under way
NoSessions == <<>>

\* no second database
NoOrder == [rows |-> {}, result |-> [empty |-> TRUE]]

Init ==
    /\ land_prices_kokudo = {}
    /\ kokudo_id_seq = 1
    /\ land_prices = {}
    /\ land_prices_id_seq = 1
    /\ converted = <<>>
    /\ extracted = <<>>
    /\ result = [empty |-> TRUE]
    /\ choume_master = <<>>
    /\ matched = NoMatch
    /\ last = NoCall
    /\ main_run = NoRun
    /\ sessions = NoSessions
    /\ other_order = NoOrder

\* main, lines 516-525, for one year: the records extracted from the year's
\* file are imported
ImportYear(run) ==
    LET out == import_to_db(land_prices_kokudo, kokudo_id_seq, run.records)
    IN /\ kokudo_id_seq + Len(run.gdf) - 1 <= MaxId
       /\ land_prices_kokudo' = out.rows
       /\ kokudo_id_seq' = out.seq
       /\ last' = [op |-> "import_to_db", year |-> run.year, records |-> run.records,
                   success_count |-> out.success_count,
                   error_count |-> out.error_count,
                   repeat |-> last.op = "import_to_db" /\ last.records = run.records]
       /\ extracted' = run.records
       /\ UNCHANGED <<land_prices, land_prices_id_seq, converted, result, choume_master,
                      main_run, sessions, other_order, matched>>

Next == \E run \in ImportRuns : ImportYear(run)

Spec == Init /\ [][Next]_vars

----------------------------------------------------------------------------
(* State machine of the extraction: main (lines 507-517) for the extract   *)
(* of one year                                                              *)

\* the price cells of the extracts: numbers and digit strings on both sides
\* of the threshold, the placeholders, a missing cell and text
PriceCells ==
    {Num(500), Str(<<"5", "0", "0">>), Num(9999), Num(10000), Num(650000), Price650,
     Str(<<"0">>), Str(<<>>), Str(<<"_">>), Str(<<"f", "a", "l", "s", "e">>),
     Str(<<"N", "o", "n", "e">>), NaN, Str(<<"a">>)}

\* rows of the extracts: a lot with each price cell, and a row without address
PriceRows ==
    {RawRow(AddrHyphen, p, Str(DirOk)) : p \in PriceCells}
        \cup {[RawRow(AddrHyphen, Price650, NaN) EXCEPT !.address = NaN]}

\* the extractions of the model: a year, the rows of its extract, and what
\* extract_records returns for them under the field mapping of the year
ExtractRuns ==
    {[year |-> year, gdf |-> <<row>>,
      records |-> extract_records(<<row>>, year,
                                  get_field_mapping(file_config_pattern(year)), 1)] :
        year \in FirstYear..LastYear, row \in PriceRows}

ExtractYear(run) ==
    /\ extracted' = run.records
    /\ last' = [op |-> "extract_records", year |-> run.year, records |-> run.gdf,
                success_count |-> 0, error_count |-> 0, repeat |-> FALSE]
    /\ UNCHANGED <<land_prices_kokudo, kokudo_id_seq, land_prices, land_prices_id_seq,
                   converted, result, choume_master, main_run, sessions, other_order,
                   matched>>

\* the names get_field_mapping is called with: the one get_file_config gives
\* for each year of main (lines 485 and 504), and a name FIELD_MAPPINGS does
\* not define (year 0)
ProfileInputs ==
    {[year |-> year, pattern |-> file_config_pattern(year)] : year \in FirstYear..LastYear}
        \cup {[year |-> 0, pattern |-> "pattern_D"]}

\* get_field_mapping(pattern) is called and returns
GetFieldMapping(input) ==
    /\ last' = [op |-> "get_field_mapping", year |-> input.year, records |-> <<>>,
                success_count |-> 0, error_count |-> 0, repeat |-> FALSE,
                pattern |-> input.pattern,
                field_mapping |-> get_field_mapping(input.pattern),
                raised |-> FALSE]
    /\ UNCHANGED <<land_prices_kokudo, kokudo_id_seq, land_prices, land_prices_id_seq,
                   converted, extracted, result, choume_master, main_run, sessions,
                   other_order, matched>>

NextExtract ==
    \/ \E run \in ExtractRuns : ExtractYear(run)
    \/ \E input \in ProfileInputs : GetFieldMapping(input)

SpecExtract == Init /\ [][NextExtract]_vars

----------------------------------------------------------------------------
(* src/converters/address_normalizer.py: AddressNormalizer *)

\* Python's \d matches the full-width digits too
IsDigit(c) == c \in Digits \cup FullWidthDigits

RECURSIVE DigitRunEnd(_, _)
\* the last position of the run of digits that starts at p
DigitRunEnd(s, p) ==
    IF p + 1 <= Len(s) /\ IsDigit(s[p + 1]) THEN DigitRunEnd(s, p + 1) ELSE p

\* \d+chome matches at p
ChomeAt(s, p) ==
    /\ p \in 1..Len(s)
    /\ IsDigit(s[p])
    /\ OccursAt(s, Chome, DigitRunEnd(s, p) + 1)

\* \d+-\d+ matches at p
HyphenAt(s, p) ==
    /\ p \in 1..Len(s)
    /\ IsDigit(s[p])
    /\ LET q == DigitRunEnd(s, p)
       IN q + 2 <= Len(s) /\ s[q + 1] = "-" /\ IsDigit(s[q + 2])

\* (\d+)<one of the characters> matches at p
RunThenAt(s, p, chars) ==
    /\ p \in 1..Len(s)
    /\ IsDigit(s[p])
    /\ LET q == DigitRunEnd(s, p)
       IN q + 1 <= Len(s) /\ s[q + 1] \in chars

\* the tail of a pattern matches at p: \d+chome, \d+-\d+, (\d+)-,
\* (\d+)[-, minus sign, long vowel mark] or (\d+)ban
TailAt(tail, s, p) ==
    CASE tail = "chome" -> ChomeAt(s, p)
      [] tail = "hyphen" -> HyphenAt(s, p)
      [] tail = "dash" -> RunThenAt(s, p, {"-"})
      [] tail = "dashes" -> RunThenAt(s, p, {"-", "MINUS", "CHOUON"})
      [] tail = "ban" -> RunThenAt(s, p, {"ban"})

RECURSIVE FirstMatch(_, _, _)
\* the least p >= from at which the tail matches, 0 when there is none
FirstMatch(s, from, tail) ==
    IF from > Len(s) THEN 0
    ELSE IF TailAt(tail, s, from) THEN from
    ELSE FirstMatch(s, from + 1, tail)

\* the end of group 1, ([^ku]+ku)?, taken at the start of the text: the first
\* "ku" when at least one character precedes it, else 0
WardPrefixEnd(s) ==
    LET k == Find(s, <<"ku">>)
    IN IF k >= 2 THEN k ELSE 0

\* re.search(r'([^ku]+ku)?(.+?)<tail>', s): where group 2 starts and where the
\* tail starts.  Group 2 is lazy and takes at least one character; the
\* optional group 1 is tried first and given up when the rest cannot match.
SearchGroups(s, tail) ==
    LET k == WardPrefixEnd(s)
        with == IF k > 0 THEN FirstMatch(s, k + 2, tail) ELSE 0
        without == FirstMatch(s, 2, tail)
    IN IF with > 0 THEN [found |-> TRUE, start |-> k + 1, tail |-> with]
       ELSE IF without > 0 THEN [found |-> TRUE, start |-> 1, tail |-> without]
       ELSE [found |-> FALSE, start |-> 0, tail |-> 0]

IsSpace(c) == c \in {" ", "IDSP"}

RECURSIVE Strip(_)
\* str.strip()
Strip(s) ==
    IF s = <<>> THEN s
    ELSE IF IsSpace(Head(s)) THEN Strip(Tail(s))
    ELSE IF IsSpace(s[Len(s)]) THEN Strip(SubSeq(s, 1, Len(s) - 1))
    ELSE s

\* _extract_choume_name (lines 84-111): <<name>>, or <<>> for None
ExtractChoumeName(address) ==
    LET m1 == SearchGroups(address, "chome")
        m2 == SearchGroups(address, "hyphen")
    IN IF m1.found
       THEN Some(SubSeq(address, m1.start, DigitRunEnd(address, m1.tail) + 2))
       ELSE IF m2.found
       THEN Some(Strip(SubSeq(address, m2.start, m2.tail - 1)) \o <<"1">> \o Chome)
       ELSE NULL

Futakotamagawa == <<"futa", "ko", "tama", "gawa">>

Sangenjaya == <<"san", "gen", "ja", "ya">>

Shimokitazawa == <<"shimo", "kita", "zawa">>

\* SETAGAYA_CHOUME_MAP (lines 20-33)
SETAGAYA_CHOUME_MAP ==
    {[name |-> Futakotamagawa \o <<"1">> \o Chome, code |-> "13112001001"],
     [name |-> Futakotamagawa \o <<"2">> \o Chome, code |-> "13112001002"],
     [name |-> Futakotamagawa \o <<"3">> \o Chome, code |-> "13112001003"],
     [name |-> Futakotamagawa \o <<"4">> \o Chome, code |-> "13112001004"],
     [name |-> Sangenjaya \o <<"1">> \o Chome, code |-> "13112002001"],
     [name |-> Sangenjaya \o <<"2">> \o Chome, code |-> "13112002002"],
     [name |-> Shimokitazawa \o <<"1">> \o Chome, code |-> "13112003001"],
     [name |-> Shimokitazawa \o <<"2">> \o Chome, code |-> "13112003002"],
     [name |-> Shimokitazawa \o <<"3">> \o Chome, code |-> "13112003003"],
     [name |-> Shimokitazawa \o <<"4">> \o Chome, code |-> "13112003004"],
     [name |-> Shimokitazawa \o <<"5">> \o Chome, code |-> "13112003005"]}

UNKNOWN == "UNKNOWN"

\* self.choume_map.get(choume_name), "UNKNOWN" when the name has no entry
MapLookup(choume_name) ==
    IF \E e \in SETAGAYA_CHOUME_MAP : e.name = choume_name
    THEN (CHOOSE e \in SETAGAYA_CHOUME_MAP : e.name = choume_name).code
    ELSE UNKNOWN

\* AddressNormalizer.normalize (lines 53-82)
Normalize(address) ==
    IF address = <<>> THEN UNKNOWN
    ELSE LET choume_name == ExtractChoumeName(address)
         IN IF IsNull(choume_name) THEN UNKNOWN ELSE MapLookup(Val(choume_name))

----------------------------------------------------------------------------
(* src/converters/kokudo_converter.py: KokudoLandPriceConverter.convert *)

\* LAND_TYPE_MAP.get(land_type_raw, land_type_raw)
LandTypeOf(land_type_raw) ==
    CASE land_type_raw \in {"juutaku", "takuchi"} -> "juutakuchi"
      [] land_type_raw = "shougyou" -> "shougyouchi"
      [] land_type_raw = "kougyou" -> "kougyouchi"
      [] land_type_raw = "rinchi" -> "sonota"
      [] OTHER -> land_type_raw

\* int(row.get(column_mapping['price'], 0)) raises
ConvertRaises(row) == IsNull(FloatOf(row.price))

\* convert (lines 54-103): the LandPriceRecord of a row
Convert(row) ==
    [choume_code |-> Normalize(StrOf(row.address)),
     survey_year |-> row.year,
     land_type |-> LandTypeOf(row.land_type),
     official_price |-> Val(FloatOf(row.price)),
     year_on_year_change |-> NULL,
     data_source |-> "kokudo_suuchi",
     original_address |-> StrOf(row.address),
     latitude |-> row.latitude,
     longitude |-> row.longitude]

----------------------------------------------------------------------------
(* scripts/archive/old_versions/import_kokudo_multi_year.py:                *)
(* extract_choume_candidates                                                *)

\* normalize_string (lines 53-60): full-width digits to half-width, both
\* spaces removed
normalize_string(s) ==
    Replace(Replace(Translate(s), <<" ">>, <<>>), <<"IDSP">>, <<>>)

\* normalize_address of the same script (lines 62-72)
normalize_address_multi(address) ==
    LET a1 == normalize_string(address)
        a2 == IF Contains(a1, Setagaya) THEN Strip(Split(a1, Setagaya)[2]) ELSE a1
    IN Replace(Replace(a2, <<"dai", "aza">>, <<>>), <<"aza">>, <<>>)

\* REV_KANJI_NUM_MAP (lines 34-37)
KanjiDigit(c) ==
    CASE c = "1" -> "K1" [] c = "2" -> "K2" [] c = "3" -> "K3" [] c = "4" -> "K4"
      [] c = "5" -> "K5" [] c = "6" -> "K6" [] c = "7" -> "K7" [] c = "8" -> "K8"
      [] c = "9" -> "K9" [] OTHER -> c

\* num_to_kanji (lines 74-79)
num_to_kanji(s) == [i \in 1..Len(s) |-> KanjiDigit(s[i])]

\* re.sub(r'[FWH MINUS CHOUON HYPH]', '-', s) (line 92)
NormalizeHyphens(s) ==
    [i \in 1..Len(s) |-> IF s[i] \in {"FWH", "MINUS", "CHOUON", "HYPH"} THEN "-" ELSE s[i]]

RECURSIVE NonDigitRun(_)
\* ^(\D+): the leading run of characters that are not digits
NonDigitRun(s) ==
    IF s = <<>> \/ IsDigit(Head(s)) THEN <<>> ELSE <<Head(s)>> \o NonDigitRun(Tail(s))

\* the list `candidates` as lines 95-125 build it, in the order of the appends
CandidateList(address) ==
    LET normalized == NormalizeHyphens(normalize_address_multi(address))
        p1 == FirstMatch(normalized, 2, "chome")
        base1 == SubSeq(normalized, 1, DigitRunEnd(normalized, p1) + 2)
        p2 == FirstMatch(normalized, 2, "dash")
        area_name == SubSeq(normalized, 1, p2 - 1)
        choume_num == SubSeq(normalized, p2, DigitRunEnd(normalized, p2))
        m3 == NonDigitRun(normalized)
    IN (IF p1 > 0 THEN <<base1, num_to_kanji(base1)>> ELSE <<>>)
       \o (IF p2 > 0
           THEN <<area_name \o choume_num \o Chome,
                  area_name \o num_to_kanji(choume_num) \o Chome,
                  area_name>>
           ELSE <<>>)
       \o (IF m3 # <<>> THEN <<m3>> ELSE <<>>)

\* the lists list(set(candidates)) can be: the different candidates in any
\* order (the iteration order of a set of str depends on the hash seed)
ListsOfSet(candidates) ==
    LET elems == {candidates[i] : i \in 1..Len(candidates)}
        n == Cardinality(elems)
    IN {l \in [1..n -> elems] : \A e \in elems : \E i \in 1..n : l[i] = e}

\* extract_choume_candidates (lines 80-128): the lists it can return
extract_choume_candidates(address) ==
    IF address = <<>> THEN {<<>>} ELSE ListsOfSet(CandidateList(address))

----------------------------------------------------------------------------
(* scripts/archive/old_versions/20_import_historical_kokudo_data.py:        *)
(* extract_choume_name, and 12_import_kokudo_data.py:                       *)
(* normalize_address_for_matching                                           *)

\* address.replace(minus sign, '-').replace(long vowel mark, '-')
ReplaceMinus(s) == Replace(Replace(s, <<"MINUS">>, <<"-">>), <<"CHOUON">>, <<"-">>)

\* f"{area_name}{choume_num}chome" for the first match of ^(.+?)(\d+)<tail>
BlockName(s, p, stripped, first_digit) ==
    LET area_name == SubSeq(s, 1, p - 1)
        choume_num == SubSeq(s, p, DigitRunEnd(s, p))
    IN (IF stripped THEN Strip(area_name) ELSE area_name)
       \o (IF first_digit THEN <<choume_num[1]>> ELSE choume_num)
       \o Chome

\* extract_choume_name (lines 311-366): <<name>>, or <<>> for None
extract_choume_name(address) ==
    IF address = <<>> THEN NULL
    ELSE LET a1 == ReplaceMinus(Translate(address))
             a == IF Contains(a1, Setagaya) THEN Split(a1, Setagaya)[2] ELSE a1
             p1 == FirstMatch(a, 2, "chome")
             p2 == FirstMatch(a, 2, "dashes")
             p3 == FirstMatch(a, 2, "ban")
         IN IF p1 > 0 THEN Some(BlockName(a, p1, TRUE, FALSE))
            ELSE IF p2 > 0 THEN Some(BlockName(a, p2, TRUE, FALSE))
            ELSE IF p3 > 0 THEN Some(BlockName(a, p3, TRUE, TRUE))
            ELSE NULL

\* normalize_address_for_matching (12_import_kokudo_data.py, lines 82-120)
normalize_address_for_matching(address) ==
    IF address = <<>> THEN <<>>
    ELSE LET a == ReplaceMinus(Translate(address))
             p1 == FirstMatch(a, 2, "chome")
             p2 == FirstMatch(a, 2, "dashes")
             p3 == FirstMatch(a, 2, "ban")
         IN IF p1 > 0 THEN BlockName(a, p1, FALSE, FALSE)
            ELSE IF p2 > 0 THEN BlockName(a, p2, FALSE, FALSE)
            ELSE IF p3 > 0 THEN BlockName(a, p3, FALSE, FALSE)
            ELSE a

----------------------------------------------------------------------------
(* Table land_prices and insert_to_database of                             *)
(* scripts/archive/old_versions/20_import_historical_kokudo_data.py        *)

\* a column of the constraint holds SQL NULL, which equals nothing
SqlEqual(x, y) == ~IsNull(x) /\ ~IsNull(y) /\ x = y

\* unique_land_price: UNIQUE (choume_code, survey_year, land_type,
\* data_source, original_address) of fix_unique_constraint.py, the arbiter of
\* ON CONFLICT (line 721)
LandPriceConflicts(row, new) ==
    /\ SqlEqual(row.choume_code, new.choume_code)
    /\ SqlEqual(row.survey_year, new.survey_year)
    /\ SqlEqual(row.land_type, new.land_type)
    /\ SqlEqual(row.data_source, new.data_source)
    /\ SqlEqual(row.original_address, new.original_address)

\* the row of the VALUES list (lines 717-720): land_type NULL, data_source
\* 'kokudo_suuchi'
LandPriceRow(id, record) ==
    [id |-> id,
     choume_code |-> Some(record.choume_code),
     survey_year |-> Some(record.survey_year),
     land_type |-> NULL,
     official_price |-> Some(record.official_price),
     data_source |-> Some("kokudo_suuchi"),
     original_address |-> Some(record.original_address),
     land_area |-> record.land_area,
     latitude |-> record.latitude,
     longitude |-> record.longitude]

\* INSERT ... ON CONFLICT ... DO UPDATE SET official_price, land_area,
\* latitude, longitude (lines 713-727)
LandPriceUpsert(rows, id, record) ==
    LET new == LandPriceRow(id, record)
    IN IF \E row \in rows : LandPriceConflicts(row, new)
       THEN {IF LandPriceConflicts(row, new)
             THEN [row EXCEPT !.official_price = new.official_price,
                              !.land_area = new.land_area,
                              !.latitude = new.latitude,
                              !.longitude = new.longitude]
             ELSE row : row \in rows}
       ELSE rows \cup {new}

\* choume_code holds 11 characters (create_table line 85, unified_schema)
ChoumeCodeLen == 11

\* the INSERT raises
LandPriceRejects(record) == Len(record.choume_code) > ChoumeCodeLen

RECURSIVE InsertLoop(_, _, _, _, _)
\* the loop of insert_to_database (lines 729-749) and its commit (line 752)
InsertLoop(df, committed, working, seq, insert_count) ==
    IF df = <<>>
    THEN [rows |-> working, seq |-> seq, insert_count |-> insert_count]
    ELSE IF LandPriceRejects(Head(df))
    THEN InsertLoop(Tail(df), committed, committed, seq, insert_count)
    ELSE InsertLoop(Tail(df), committed, LandPriceUpsert(working, seq, Head(df)),
                    seq + 1, insert_count + 1)

\* insert_to_database(conn, df, year)
insert_to_database(rows, seq, df) ==
    IF df = <<>> THEN [rows |-> rows, seq |-> seq, insert_count |-> 0]
    ELSE InsertLoop(df, rows, rows, seq, 0)

----------------------------------------------------------------------------
(* src/database/repository.py: LandPriceRepository.bulk_insert *)

\* the columns of unique_land_price before fix_unique_constraint.py has run
UniqueBeforeFix == {"choume_code", "survey_year", "land_type", "data_source"}

\* the columns of unique_land_price once fix_unique_constraint.py has run
\* (lines 21-25)
UniqueAfterFix == UniqueBeforeFix \cup {"original_address"}

\* ON CONFLICT (choume_code, survey_year, land_type, data_source) (line 51)
BulkTarget == {"choume_code", "survey_year", "land_type", "data_source"}

BulkConflicts(row, new) == \A c \in BulkTarget : SqlEqual(row[c], new[c])

\* the row of the VALUES list (lines 47-50, 57-68); land_area is not in the
\* column list
BulkRow(id, record) ==
    [id |-> id,
     choume_code |-> Some(record.choume_code),
     survey_year |-> Some(record.survey_year),
     land_type |-> Some(record.land_type),
     official_price |-> Some(record.official_price),
     data_source |-> Some(record.data_source),
     original_address |-> Some(record.original_address),
     land_area |-> NULL,
     latitude |-> record.latitude,
     longitude |-> record.longitude]

\* INSERT ... ON CONFLICT ... DO UPDATE SET official_price, latitude,
\* longitude, original_address (lines 46-56)
BulkUpsert(rows, id, record) ==
    LET new == BulkRow(id, record)
    IN IF \E row \in rows : BulkConflicts(row, new)
       THEN {IF BulkConflicts(row, new)
             THEN [row EXCEPT !.official_price = new.official_price,
                              !.latitude = new.latitude,
                              !.longitude = new.longitude,
                              !.original_address = new.original_address]
             ELSE row : row \in rows}
       ELSE rows \cup {new}

\* cursor.execute raises psycopg2.Error: no unique constraint of the table has
\* the columns of the ON CONFLICT target, or choume_code is not a code of
\* table choume, which land_prices references (21_import_choume_master.py
\* line 213)
BulkRejects(schema, record) ==
    \/ schema.unique # BulkTarget
    \/ record.choume_code \notin schema.choume

RECURSIVE BulkLoop(_, _, _, _, _, _)
\* the try block of bulk_insert (lines 43-79): the loop over the records, the
\* commit after it, and the except that rolls back and raises again
BulkLoop(schema, records, committed, working, seq, insert_count) ==
    IF records = <<>>
    THEN [rows |-> working, seq |-> seq, insert_count |-> insert_count,
          raised |-> FALSE]
    ELSE IF BulkRejects(schema, Head(records))
    THEN [rows |-> committed, seq |-> seq, insert_count |-> insert_count,
          raised |-> TRUE]
    ELSE BulkLoop(schema, Tail(records), committed,
                  BulkUpsert(working, seq, Head(records)), seq + 1, insert_count + 1)

\* bulk_insert(records)
bulk_insert(schema, rows, seq, records) ==
    IF records = <<>>
    THEN [rows |-> rows, seq |-> seq, insert_count |-> 0, raised |-> FALSE]
    ELSE BulkLoop(schema, records, rows, rows, seq, 0)

----------------------------------------------------------------------------
(* The rows the land_prices pipeline reads *)

\* addresses handed to the converter
ConvertAddresses ==
    {Tokyo \o Setagaya \o Futakotamagawa \o <<"1">> \o Chome,
     Futakotamagawa \o <<"F3">> \o Chome,
     Shimokitazawa \o <<"1", "-", "2", "-", "3">>,
     Shimokitazawa \o <<"6", "-", "1", "-", "1">>,
     <<"sakura", "jou", "sui", "5">> \o Chome,
     <<>>}

ConvertRows ==
    {[address |-> Str(a), year |-> 2024, land_type |-> "juutaku", price |-> p,
      latitude |-> Some(35), longitude |-> Some(139)] :
        a \in ConvertAddresses, p \in {Num(650000), Str(<<"_">>)}}

\* rows of the DataFrame match_with_choume returns (lines 662-671)
MatchedRows(year) ==
    {[choume_code |-> "13112003001", survey_year |-> year, official_price |-> p,
      original_address |-> Shimokitazawa \o <<"1", "-", "2", "-", n>>,
      land_area |-> Some(120), latitude |-> Some(35), longitude |-> Some(139)] :
        p \in {650000, 660000}, n \in {"3", "4"}}

\* every survey point of the source file appears once
DistinctPoints(df) ==
    \A i, j \in DOMAIN df : df[i].original_address = df[j].original_address => i = j

\* the DataFrames of a year: up to MaxBatch survey points
DataFrames(year) ==
    UNION {{df \in [1..n -> MatchedRows(year)] : DistinctPoints(df)} : n \in 1..MaxBatch}

\* records converted by one convert_dataframe call
MaxConverted == 2

\* the codes of table choume: those of the ward, with the row 'UNKNOWN' that
\* add_unknown_choume.py inserts or without it
ChoumeCodes(unknown) ==
    {e.code : e \in SETAGAYA_CHOUME_MAP} \cup (IF unknown THEN {UNKNOWN} ELSE {})

\* the states of the database bulk_insert may meet
Schemas ==
    {[unique |-> UniqueAfterFix, choume |-> ChoumeCodes(TRUE)],
     [unique |-> UniqueBeforeFix, choume |-> ChoumeCodes(TRUE)],
     [unique |-> UniqueBeforeFix, choume |-> ChoumeCodes(FALSE)]}

----------------------------------------------------------------------------
(* State machine of the land_prices pipeline *)

\* convert_dataframe (lines 132-143) for one row: the record is appended, a
\* row whose conversion raises is skipped
ConvertRow(row) ==
    /\ Len(converted) < MaxConverted
    /\ converted' = IF ConvertRaises(row) THEN converted
                    ELSE Append(converted, Convert(row))
    /\ last' = [op |-> "convert", year |-> row.year, records |-> <<row>>,
                success_count |-> 0, error_count |-> 0, repeat |-> FALSE]
    /\ UNCHANGED <<land_prices_kokudo, kokudo_id_seq, land_prices, land_prices_id_seq,
                   extracted, result, choume_master, main_run, sessions, other_order,
                   matched>>

\* process_year (lines 791-794): the matched rows of a year are inserted
InsertYear(year, df) ==
    LET out == insert_to_database(land_prices, land_prices_id_seq, df)
    IN /\ land_prices_id_seq + Len(df) - 1 <= MaxId
       /\ land_prices' = out.rows
       /\ land_prices_id_seq' = out.seq
       /\ last' = [op |-> "insert_to_database", year |-> year, records |-> df,
                   success_count |-> out.insert_count, error_count |-> 0,
                   repeat |-> last.op = "insert_to_database" /\ last.records = df]
       /\ UNCHANGED <<land_prices_kokudo, kokudo_id_seq, converted, extracted, result,
                      choume_master, main_run, sessions, other_order, matched>>

\* 03_import_data.py main (line 93): the converted records are written
BulkInsert(schema) ==
    LET out == bulk_insert(schema, land_prices, land_prices_id_seq, converted)
    IN /\ land_prices_id_seq + Len(converted) - 1 <= MaxId
       /\ land_prices' = out.rows
       /\ land_prices_id_seq' = out.seq
       /\ last' = [op |-> "bulk_insert", year |-> 0, records |-> converted,
                   success_count |-> out.insert_count, error_count |-> 0,
                   repeat |-> FALSE, schema |-> schema, raised |-> out.raised]
       /\ UNCHANGED <<land_prices_kokudo, kokudo_id_seq, converted, extracted, result,
                      choume_master, main_run, sessions, other_order, matched>>

NextLandPrices ==
    \/ \E row \in ConvertRows : ConvertRow(row)
    \/ \E year \in {2017} : \E df \in DataFrames(year) : InsertYear(year, df)
    \/ \E schema \in Schemas : BulkInsert(schema)

SpecLandPrices == Init /\ [][NextLandPrices]_vars

----------------------------------------------------------------------------
(* modules/data_aggregator/collectors/land_price_collector.py:             *)
(* LandPriceCollector.fetch, the query of lines 91-113                     *)

RECURSIVE StripTrailingDigits(_)
\* re.sub(r'\d+$', '', s)
StripTrailingDigits(s) ==
    IF s # <<>> /\ IsDigit(s[Len(s)])
    THEN StripTrailingDigits(SubSeq(s, 1, Len(s) - 1))
    ELSE s

\* choume_base (lines 81-85); the search pattern is choume_base followed by %
ChoumeBase(choume) == StripTrailingDigits(Translate(choume))

\* TRANSLATE(original_address, ...) LIKE choume_base || '%'
Like(row, choume_base) == PrefixOf(choume_base, Translate(row.original_address))

\* the rows of one GROUP BY survey_year group
Group(table, choume_base, year) ==
    {row \in table : row.survey_year = year /\ Like(row, choume_base)}

\* the rows of a group whose column is not NULL
NotNullIn(rows, col) == {row \in rows : ~IsNull(row[col])}

RECURSIVE SumOf(_, _)
\* the sum of a column that is not NULL in any of the rows
SumOf(rows, col) ==
    IF rows = {} THEN 0
    ELSE LET row == CHOOSE r \in rows : TRUE
         IN Val(row[col]) + SumOf(rows \ {row}, col)

\* numeric::INTEGER of sum / n: rounds to the nearest, ties away from zero
RoundDiv(sum, n) ==
    IF sum >= 0 THEN (2 * sum + n) \div (2 * n)
    ELSE 0 - ((2 * (0 - sum) + n) \div (2 * n))

\* a mutation of AvgPrice: the sum of the prices divided by COUNT(*)
AvgOverAllRows(rows) ==
    IF NotNullIn(rows, "official_price") = {} THEN NULL
    ELSE Some(RoundDiv(SumOf(NotNullIn(rows, "official_price"), "official_price"),
                       Cardinality(rows)))

\* AVG(official_price)::INTEGER: NULL prices are left out of the average
AvgPrice(rows) ==
    LET priced == NotNullIn(rows, "official_price")
    IN IF priced = {} THEN NULL
       ELSE Some(RoundDiv(SumOf(priced, "official_price"), Cardinality(priced)))

\* MIN(col) of a numeric column
MinInt(rows, col) ==
    LET vals == {Val(row[col]) : row \in NotNullIn(rows, col)}
    IN IF vals = {} THEN NULL ELSE Some(CHOOSE v \in vals : \A w \in vals : v <= w)

\* a mutation of MaxInt: the value of the record added last
LastAddedInt(rows, col) ==
    LET having == NotNullIn(rows, col)
    IN IF having = {} THEN NULL
       ELSE (CHOOSE row \in having : \A r \in having : r.id <= row.id)[col]

\* MAX(col), MAX(CASE WHEN col IS NOT NULL THEN col END) of a numeric column
MaxInt(rows, col) ==
    LET vals == {Val(row[col]) : row \in NotNullIn(rows, col)}
    IN IF vals = {} THEN NULL ELSE Some(CHOOSE v \in vals : \A w \in vals : v >= w)

\* the characters of the model in the order of their code points
Collation ==
    <<" ", "-", "0", "1", "2", "3", "4", "5", "6", "7", "8", "9", "A", "B", "C", "S", "_",
      "HYPH", "MINUS", "IDSP", "chou", "se", "kyou", "ku", "gai", "tou", "sakura", "ta",
      "ban", "me", "gaya", "to", "FWH", "F0", "F1", "F2", "F3", "F4", "F5", "F6", "F7",
      "F8", "F9">>

CharRank(c) ==
    IF \E i \in 1..Len(Collation) : Collation[i] = c
    THEN CHOOSE i \in 1..Len(Collation) : Collation[i] = c
    ELSE Len(Collation) + 1

RECURSIVE TextLess(_, _)
\* a < b for text
TextLess(a, b) ==
    IF a = <<>> THEN b # <<>>
    ELSE IF b = <<>> THEN FALSE
    ELSE IF Head(a) = Head(b) THEN TextLess(Tail(a), Tail(b))
    ELSE CharRank(Head(a)) < CharRank(Head(b))

TextLessEq(a, b) == a = b \/ TextLess(a, b)

\* a mutation of MaxText: the value of the representative (first) record
FirstRecordText(rows, col) ==
    IF rows = {} THEN NULL
    ELSE (CHOOSE row \in rows : \A r \in rows : row.id <= r.id)[col]

\* MAX(CASE WHEN col IS NOT NULL THEN col END) of a text column
MaxText(rows, col) ==
    LET vals == {Val(row[col]) : row \in NotNullIn(rows, col)}
    IN IF vals = {} THEN NULL
       ELSE Some(CHOOSE v \in vals : \A w \in vals : TextLessEq(w, v))

\* MIN(original_address)
MinAddress(rows) ==
    LET vals == {row.original_address : row \in rows}
    IN CHOOSE v \in vals : \A w \in vals : TextLessEq(v, w)

\* one row of the result set (lines 92-108)
GroupRow(rows, year) ==
    [survey_year |-> year,
     point_count |-> Cardinality(rows),
     avg_price |-> AvgPrice(rows),
     min_price |-> MinInt(rows, "official_price"),
     max_price |-> MaxInt(rows, "official_price"),
     land_use |-> MaxText(rows, "land_use"),
     building_coverage_ratio |-> MaxInt(rows, "building_coverage_ratio"),
     floor_area_ratio |-> MaxInt(rows, "floor_area_ratio"),
     road_direction |-> MaxText(rows, "road_direction"),
     road_width |-> MaxInt(rows, "road_width"),
     land_area |-> MaxInt(rows, "land_area"),
     nearest_station |-> MaxText(rows, "nearest_station"),
     station_distance |-> MaxInt(rows, "station_distance"),
     sample_address |-> MinAddress(rows)]

RECURSIVE Ascending(_)
\* ORDER BY survey_year
Ascending(years) ==
    IF years = {} THEN <<>>
    ELSE LET first == CHOOSE y \in years : \A z \in years : y <= z
         IN <<first>> \o Ascending(years \ {first})

RECURSIVE ByFirstId(_, _)
\* the years of the rows, the year whose row was stored first coming first
ByFirstId(rows, years) ==
    IF years = {} THEN <<>>
    ELSE LET first == CHOOSE y \in years :
                          \E r \in rows :
                              /\ r.survey_year = y
                              /\ \A o \in rows : o.survey_year \in years => r.id <= o.id
         IN <<first>> \o ByFirstId(rows, years \ {first})

\* a mutation of Query: without ORDER BY survey_year the groups come in the
\* order in which the years were stored
QueryInStoredOrder(table, choume_base) ==
    LET rows == {r \in table : Like(r, choume_base)}
        years == ByFirstId(rows, {row.survey_year : row \in rows})
    IN [i \in 1..Len(years) |-> GroupRow(Group(table, choume_base, years[i]), years[i])]

\* cursor.fetchall() of the query
Query(table, choume_base) ==
    LET years == Ascending({row.survey_year : row \in {r \in table : Like(r, choume_base)}})
    IN [i \in 1..Len(years) |-> GroupRow(Group(table, choume_base, years[i]), years[i])]

----------------------------------------------------------------------------
(* LandPriceCollector.fetch, lines 115-212.  A float is modelled by the     *)
(* exact fraction [num, den] in lowest terms with den > 0.                  *)

Abs(x) == IF x < 0 THEN 0 - x ELSE x

RECURSIVE GCD(_, _)
GCD(a, b) == IF b = 0 THEN a ELSE GCD(b, a % b)

\* n / d for d > 0
Frac(n, d) ==
    LET g == GCD(Abs(n), d)
    IN [num |-> n \div g, den |-> d \div g]

\* 0.0
Zero == [num |-> 0, den |-> 1]

\* ((curr - prev) / prev) * 100
Rate(curr, prev) == Frac((curr - prev) * 100, prev)

\* x and x > 0
Positive(x) == ~IsNull(x) /\ Val(x) > 0

\* a mutation of Change: every entry is compared with the first entry
ChangeAgainstFirst(rows, i) ==
    IF i > 1 /\ Positive(rows[1].avg_price)
    THEN Rate(Val(rows[i].avg_price), Val(rows[1].avg_price))
    ELSE Zero

\* change of entry i (lines 126-131)
Change(rows, i) ==
    IF i > 1 /\ Positive(rows[i - 1].avg_price)
    THEN Rate(Val(rows[i].avg_price), Val(rows[i - 1].avg_price))
    ELSE Zero

\* curr_avg - prev_avg raises TypeError: curr_avg is None
ChangeRaises(rows, i) ==
    i > 1 /\ Positive(rows[i - 1].avg_price) /\ IsNull(rows[i].avg_price)

\* ((latest[2] - base[2]) / base[2]) * 100 if base[2] and base[2] > 0 else 0
SpanChange(latest, base) ==
    IF Positive(base.avg_price)
    THEN Rate(Val(latest.avg_price), Val(base.avg_price))
    ELSE Zero

SpanRaises(latest, base) == Positive(base.avg_price) /\ IsNull(latest.avg_price)

\* len(rows) >= 5 and rows[-5] (lines 151-152)
FiveYears == 5

\* five_years_ago = rows[-5]
FiveYearsAgo(rows) == rows[Len(rows) - FiveYears + 1]

\* f"{latest[2]:,} ... {latest[3]:,}-{latest[4]:,}" raises TypeError on None
LogRaises(latest) ==
    IsNull(latest.avg_price) \/ IsNull(latest.min_price) \/ IsNull(latest.max_price)

\* an exception is raised inside the try block
FetchRaises(rows) ==
    LET latest == rows[Len(rows)]
    IN \/ \E i \in 1..Len(rows) : ChangeRaises(rows, i)
       \/ SpanRaises(latest, rows[1])
       \/ Len(rows) >= FiveYears /\ SpanRaises(latest, FiveYearsAgo(rows))
       \/ Len(rows) >= 2 /\ SpanRaises(latest, rows[Len(rows) - 1])
       \/ LogRaises(latest)

\* value if value else 0
OrZero(x) == IF IsNull(x) THEN 0 ELSE Val(x)

\* the returned {}
EmptyDict == [empty |-> TRUE]

\* the dict built at lines 122-199
ResultOf(rows) ==
    LET latest == rows[Len(rows)]
        price_min == OrZero(latest.min_price)
        price_max == OrZero(latest.max_price)
        point_count == latest.point_count
    IN [empty |-> FALSE,
        land_price_history |->
            [i \in 1..Len(rows) |->
                [year |-> rows[i].survey_year,
                 price |-> rows[i].avg_price,
                 price_min |-> rows[i].min_price,
                 price_max |-> rows[i].max_price,
                 point_count |-> rows[i].point_count,
                 change |-> Change(rows, i),
                 address |-> rows[i].sample_address]],
        latest_price |-> latest.avg_price,
        latest_price_min |-> latest.min_price,
        latest_price_max |-> latest.max_price,
        latest_point_count |-> latest.point_count,
        price_change_26y |-> SpanChange(latest, rows[1]),
        price_change_5y |-> IF Len(rows) >= FiveYears
                            THEN SpanChange(latest, FiveYearsAgo(rows)) ELSE Zero,
        price_change_1y |-> IF Len(rows) >= 2
                            THEN SpanChange(latest, rows[Len(rows) - 1]) ELSE Zero,
        data_source |-> "chika_kouji",
        original_address |-> latest.sample_address,
        price_ratio |-> IF price_min > 0 THEN Frac(price_max, price_min)
                        ELSE [num |-> 1, den |-> 1],
        price_range_yen |-> price_max - price_min,
        has_wide_range |-> price_min > 0 /\ 2 * price_max > 3 * price_min
                           /\ point_count > 1,
        land_use |-> latest.land_use,
        building_coverage_ratio |-> latest.building_coverage_ratio,
        floor_area_ratio |-> latest.floor_area_ratio,
        road_direction |-> latest.road_direction,
        road_width |-> latest.road_width,
        land_area |-> latest.land_area,
        nearest_station |-> latest.nearest_station,
        station_distance |-> latest.station_distance]

\* fetch(area): {} when no row matches or an exception is caught (lines
\* 117-121, 210-212)
fetch(table, choume) ==
    LET rows == Query(table, ChoumeBase(choume))
    IN IF rows = <<>> THEN EmptyDict
       ELSE IF FetchRaises(rows) THEN EmptyDict
       ELSE ResultOf(rows)

----------------------------------------------------------------------------
(* The tables fetch reads: what the import leaves after the yearly extracts *)
(* of a plan                                                                *)

RECURSIVE ImportPlan(_, _, _)
\* main (lines 479-525) over the extracts of a plan, in order
ImportPlan(plan, rows, seq) ==
    IF plan = <<>> THEN [rows |-> rows, seq |-> seq]
    ELSE LET year == Head(plan).year
             records == extract_records(Head(plan).gdf, year,
                                        get_field_mapping(file_config_pattern(year)), 1)
             out == import_to_db(rows, seq, records)
         IN ImportPlan(Tail(plan), out.rows, out.seq)

\* the years of a price series of one lot
SeriesYears == <<2000, 2005, 2010, 2015, 2020, 2024>>

PriceText(n) == Str(Decimal(n))

NoPrice == Str(<<"_">>)

\* the price cell of the lot in a year
SeriesPrices(year) ==
    CASE year = 2000 -> {PriceText(600000), NoPrice, PriceText(0)}
      [] year = 2005 -> {PriceText(660000), PriceText(0)}
      [] year = 2010 -> {PriceText(720000), NoPrice}
      [] year = 2015 -> {PriceText(700000)}
      [] year = 2020 -> {PriceText(650000), NoPrice}
      [] year = 2024 -> {PriceText(660000), NoPrice}

\* the extract of a year: without the lot, or with it
SeriesExtracts(year) ==
    {<<>>} \cup {<<RawRow(AddrHyphen, p, NaN)>> : p \in SeriesPrices(year)}

RECURSIVE SeriesPlans(_)
SeriesPlans(i) ==
    IF i > Len(SeriesYears) THEN {<<>>}
    ELSE {<<[year |-> SeriesYears[i], gdf |-> gdf]>> \o rest :
            gdf \in SeriesExtracts(SeriesYears[i]), rest \in SeriesPlans(i + 1)}

\* a survey point with its land use and road width
PointRow(address, price, land_use, road_width) ==
    [RawRow(address, price, NaN) EXCEPT !.land_use = land_use, !.road_width = road_width]

\* survey points of one year: four in block sakura 1-chome, one in 3-chome
PointRows ==
    {PointRow(AddrHyphen, PriceText(700000), Str(<<"B">>), NaN),
     PointRow(AddrHyphen, PriceText(700000), NaN, Num(6)),
     PointRow(AddrOtherLot, PriceText(700001), NaN, Num(6)),
     PointRow(AddrOtherLot, NoPrice, Str(<<"A">>), Num(4)),
     PointRow(AddrThirdLot, PriceText(900000), Str(<<"C">>), Num(8))}

\* survey points in the extract of the year
MaxGroup == 2

GroupYear == 2024

GroupPlans ==
    {<<[year |-> GroupYear, gdf |-> gdf]>> :
        gdf \in UNION {[1..n -> PointRows] : n \in 1..MaxGroup}}

FetchTables == {ImportPlan(plan, {}, 1) : plan \in SeriesPlans(1) \cup GroupPlans}

\* area.choume of the areas asked for
Choumes ==
    {Sakura \o <<"1">> \o Chome,
     Sakura \o <<"F1">> \o Chome,
     Sakura \o <<"1">> \o Chome \o <<"3">>,
     Sakura \o <<"3">> \o Chome,
     Futakotamagawa \o <<"1">> \o Chome}

----------------------------------------------------------------------------
(* State machine of the collector *)

InitFetch ==
    /\ \E t \in FetchTables : land_prices_kokudo = t.rows /\ kokudo_id_seq = t.seq
    /\ land_prices = {}
    /\ land_prices_id_seq = 1
    /\ converted = <<>>
    /\ extracted = <<>>
    /\ result = EmptyDict
    /\ choume_master = <<>>
    /\ matched = NoMatch
    /\ last = NoCall
    /\ main_run = NoRun
    /\ sessions = NoSessions
    /\ other_order = NoOrder

Fetch(choume) ==
    /\ result' = fetch(land_prices_kokudo, choume)
    /\ last' = [op |-> "fetch", year |-> 0, records |-> <<choume>>, success_count |-> 0,
                error_count |-> 0, repeat |-> FALSE]
    /\ UNCHANGED <<land_prices_kokudo, kokudo_id_seq, land_prices, land_prices_id_seq,
                   converted, extracted, choume_master, main_run, sessions, other_order,
                   matched>>

NextFetch == \E choume \in Choumes : Fetch(choume)

SpecFetch == InitFetch /\ [][NextFetch]_vars

----------------------------------------------------------------------------
(* Matching an address against table choume:                                *)
(* import_year_data of scripts/archive/old_versions/                        *)
(* import_kokudo_multi_year.py, match_with_choume of                        *)
(* 20_import_historical_kokudo_data.py, update_database of                  *)
(* 12_import_kokudo_data.py                                                 *)

\* choume_map of import_year_data (lines 250-253), read at a key: the codes
\* of the rows whose normalized name is the key (the SELECT has no ORDER BY,
\* so with several such rows any of them can be the last one written)
ChoumeMapGet(master, key) ==
    {master[i].code : i \in {j \in 1..Len(master) : normalize_string(master[j].name) = key}}

RECURSIVE FirstInMap(_, _)
\* the loop of lines 288-295: the first candidate whose normalized form is a
\* key of choume_map, <<>> when there is none
FirstInMap(master, candidates) ==
    IF candidates = <<>> THEN NULL
    ELSE IF ChoumeMapGet(master, normalize_string(Head(candidates))) # {}
    THEN Some(Head(candidates))
    ELSE FirstInMap(master, Tail(candidates))

\* existing_map of import_year_data (lines 256-257), read at a key: the ids of
\* the year's rows whose normalized address is the key
ExistingMapGet(rows, year, norm_addr) ==
    {row.id : row \in {r \in rows : /\ r.survey_year = Some(year)
                                    /\ ~IsNull(r.original_address)
                                    /\ Val(r.original_address) # <<>>
                                    /\ normalize_address_multi(Val(r.original_address))
                                           = norm_addr}}

\* COALESCE(official_price, new)
Coalesce(x, y) == IF IsNull(x) THEN y ELSE x

\* the row of the INSERT of lines 302-316: land_type is not in the column
\* list, data_source is 'kokudo_geojson'
GeojsonRow(id, choume_code, year, data) ==
    [id |-> id,
     choume_code |-> Some(choume_code),
     survey_year |-> Some(year),
     land_type |-> NULL,
     official_price |-> data.official_price,
     data_source |-> Some("kokudo_geojson"),
     original_address |-> Some(data.original_address),
     land_area |-> data.land_area,
     latitude |-> NULL,
     longitude |-> NULL]

\* INSERT ... ON CONFLICT (...) DO UPDATE SET official_price (lines 302-311)
GeojsonUpsert(rows, new) ==
    IF \E row \in rows : LandPriceConflicts(row, new)
    THEN {IF LandPriceConflicts(row, new)
          THEN [row EXCEPT !.official_price = new.official_price]
          ELSE row : row \in rows}
    ELSE rows \cup {new}

RECURSIVE DictItems(_, _)
\* choume_dict = {row[1]: row[0] for row in choume_records} (line 430): its
\* items in iteration order.  A name met again keeps its place and takes the
\* later code.
DictItems(rows, items) ==
    IF rows = <<>> THEN items
    ELSE LET row == Head(rows)
             at == {i \in 1..Len(items) : items[i].name = row.name}
         IN IF at = {}
            THEN DictItems(Tail(rows), Append(items, row))
            ELSE DictItems(Tail(rows),
                           [i \in 1..Len(items) |-> IF i \in at THEN row ELSE items[i]])

\* choume_dict of match_with_choume: the rows of the master come ORDER BY
\* choume_code (lines 423-430)
choume_dict(master) == DictItems(master, <<>>)

\* name.replace(chome, '').strip()
WithoutChome(name) == Strip(Replace(name, Chome, <<>>))

\* len(choume_dict.get(matched_code, '').replace(chome, '')) of line 615: the
\* dict is keyed by name and is read at a code; no name of the master is a
\* code, so get returns its default ''
MatchedLength(items, matched_code) == 0

RECURSIVE MatchLoop(_, _, _, _)
\* the loop of lines 603-623 over the items that remain; `found` is
\* (matched_code, matched_name) so far, <<>> for None
MatchLoop(all, items, normalized_extracted, found) ==
    IF items = <<>> THEN found
    ELSE LET db == Head(items)
             normalized_db == WithoutChome(db.name)
         IN IF normalized_extracted = normalized_db
            THEN Some(db)
            ELSE IF normalized_extracted # <<>> /\ Contains(normalized_db, normalized_extracted)
            THEN IF IsNull(found) \/ Len(normalized_db) > MatchedLength(all, Val(found).code)
                 THEN MatchLoop(all, Tail(items), normalized_extracted, Some(db))
                 ELSE MatchLoop(all, Tail(items), normalized_extracted, found)
            ELSE IF normalized_db # <<>> /\ Contains(normalized_extracted, normalized_db)
            THEN Some(db)
            ELSE MatchLoop(all, Tail(items), normalized_extracted, found)

\* lines 591-623: the item the extracted name resolves to, <<>> for none
Resolve(items, choume_name_extracted) ==
    LET exact == {i \in 1..Len(items) : items[i].name = choume_name_extracted}
    IN IF exact # {}
       THEN Some(items[CHOOSE i \in exact : TRUE])
       ELSE MatchLoop(items, items, WithoutChome(choume_name_extracted), NULL)

\* match_with_choume (lines 573-629) for a gdf of one row that carries a valid
\* price: the matched record, <<>> when the row is skipped
match_with_choume(master, address) ==
    IF address = <<>> THEN NULL
    ELSE LET choume_name_extracted == extract_choume_name(address)
         IN IF IsNull(choume_name_extracted) \/ Val(choume_name_extracted) = <<>>
            THEN NULL
            ELSE Resolve(choume_dict(master), Val(choume_name_extracted))

Sakurajousui == <<"sakura", "jou", "sui">>

\* "sakurajousui 5-40-10" in full-width digits, with the given hyphen glyph
AddrGlyph(glyph) == Sakurajousui \o <<"F5", glyph, "F4", "F0", glyph, "F1", "F0">>

\* the hyphen glyphs of the data: hyphen-minus, full-width hyphen-minus
\* (U+FF0D), minus sign (U+2212), hyphen (U+2010), long vowel mark (U+30FC)
Glyphs == {"-", "FWH", "MINUS", "HYPH", "CHOUON"}

\* "Tokyo-to sangenjaya 2-chome" with an ideographic space and a full-width digit
AddrTokyoChome == Tokyo \o <<"IDSP">> \o Sangenjaya \o <<"F2">> \o Chome

\* the same block written with the ward
AddrWardChome == Tokyo \o <<"IDSP">> \o Setagaya \o Sangenjaya \o <<"F2">> \o Chome

\* "sakura 1-chome 2-ban"
AddrChome == Sakura \o <<"1">> \o Chome \o <<"2">> \o Ban

\* "sakura 17-ban 12"
AddrBan == Sakura \o <<"1", "7">> \o Ban \o <<"1", "2">>

\* addresses of the records that are matched
MatchAddresses ==
    {AddrGlyph(glyph) : glyph \in Glyphs}
        \cup {AddrTokyoChome, AddrWardChome, AddrChome, AddrHyphen, AddrBan, Sakurajousui, <<>>}

\* names of table choume
MasterNames ==
    {Sakura,
     Sakura \o <<"1">>,
     Sakura \o <<"1">> \o Chome,
     Sakura \o <<"1", "0">> \o Chome,
     Sakura \o <<"1", "1">> \o Chome,
     Sakurajousui,
     Sakurajousui \o <<"5">> \o Chome,
     Sangenjaya \o <<"2">> \o Chome,
     Sangenjaya \o <<"K2">> \o Chome}

\* choume_code values, in ascending order
MasterCodes == <<"13112001001", "13112001002", "13112001003">>

\* rows of table choume at most
MaxMaster == 2

\* the tables choume of the runs: rows with different names, in code order
Masters ==
    UNION {{[i \in 1..n |-> [name |-> names[i], code |-> MasterCodes[i]]] :
               names \in {f \in [1..n -> MasterNames] :
                             \A i, j \in 1..n : f[i] = f[j] => i = j}} :
           n \in 0..MaxMaster}

\* the year of a file whose name carries none (line 193)
DefaultYear == 2021

\* rows import_year_data adds at most
MaxImported == 1

\* the entry of geojson_data of an address (lines 203-240)
GeojsonData(address) ==
    [original_address |-> address, official_price |-> Some(650000), land_area |-> Some(120)]

\* what the address functions give for the addresses, and the lists
\* extract_choume_candidates can return for each
CandidateRuns ==
    UNION {{[address |-> address,
             norm_addr |-> normalize_address_multi(address),
             candidates |-> candidates] :
                candidates \in extract_choume_candidates(address)} :
           address \in MatchAddresses \ {<<>>}}

\* the candidate the loop of import_year_data stops at, by table choume
ImportMatches ==
    {[master |-> master,
      address |-> run.address,
      norm_addr |-> run.norm_addr,
      candidates |-> run.candidates,
      matched_name |-> FirstInMap(master, run.candidates)] :
         master \in Masters, run \in CandidateRuns}

\* what match_with_choume gives for the rows, by table choume
MatchRuns ==
    {[master |-> master,
      address |-> address,
      extracted |-> extract_choume_name(address),
      found |-> match_with_choume(master, address)] :
         master \in Masters, address \in MatchAddresses}

\* data['address'] of parse_feature (12_import_kokudo_data.py, lines 64-70):
\* the text after the ward, stripped
parse_feature(address) ==
    Strip(IF Contains(address, Setagaya) THEN Split(address, Setagaya)[2] ELSE address)

\* what normalize_address_for_matching gives for the features
NormalizeRuns ==
    {[address |-> address,
      pattern |-> normalize_address_for_matching(parse_feature(address))] :
         address \in MatchAddresses}

InitMatch ==
    /\ land_prices_kokudo = {}
    /\ kokudo_id_seq = 1
    /\ land_prices = {}
    /\ land_prices_id_seq = 1
    /\ converted = <<>>
    /\ extracted = <<>>
    /\ result = [empty |-> TRUE]
    /\ choume_master \in Masters
    /\ matched = NoMatch
    /\ last = NoCall
    /\ main_run = NoRun
    /\ sessions = NoSessions
    /\ other_order = NoOrder

\* import_year_data (lines 245-333) for a geojson_data of one entry whose
\* address is already stored for the year: the UPDATE branch
UpdateRecord(run) ==
    LET data == GeojsonData(run.address)
    IN /\ run.master = choume_master
       /\ \E id \in ExistingMapGet(land_prices, DefaultYear, run.norm_addr) :
              land_prices' =
                  {IF row.id = id
                   THEN [row EXCEPT !.official_price = Coalesce(@, data.official_price),
                                    !.land_area = data.land_area]
                   ELSE row : row \in land_prices}
       /\ matched' = [op |-> "update", address |-> run.address, candidates |-> <<>>,
                      name |-> NULL, code |-> NULL]
       /\ UNCHANGED <<land_prices_kokudo, kokudo_id_seq, land_prices_id_seq, converted,
                      extracted, result, choume_master, main_run, sessions, other_order,
                      last>>

\* import_year_data for a geojson_data of one entry whose address is not
\* stored: the INSERT branch with the list extract_choume_candidates returned
ImportRecord(run) ==
    LET data == GeojsonData(run.address)
        matched_name == run.matched_name
    IN /\ run.master = choume_master
       /\ ExistingMapGet(land_prices, DefaultYear, run.norm_addr) = {}
       /\ land_prices_id_seq <= MaxImported
       /\ IF IsNull(matched_name)
          THEN /\ matched' = [op |-> "import_year_data", address |-> run.address,
                              candidates |-> run.candidates, name |-> NULL,
                              code |-> NULL]
               /\ UNCHANGED <<land_prices, land_prices_id_seq>>
          ELSE \E choume_code \in ChoumeMapGet(choume_master,
                                               normalize_string(Val(matched_name))) :
                  /\ land_prices' =
                         GeojsonUpsert(land_prices,
                                       GeojsonRow(land_prices_id_seq, choume_code,
                                                  DefaultYear, data))
                  /\ land_prices_id_seq' = land_prices_id_seq + 1
                  /\ matched' = [op |-> "import_year_data", address |-> run.address,
                                 candidates |-> run.candidates, name |-> matched_name,
                                 code |-> Some(choume_code)]
       /\ UNCHANGED <<land_prices_kokudo, kokudo_id_seq, converted, extracted, result,
                      choume_master, main_run, sessions, other_order, last>>

NextImportYear ==
    \E run \in ImportMatches :
        \/ UpdateRecord(run)
        \/ ImportRecord(run)

SpecImportYear == InitMatch /\ [][NextImportYear]_vars

\* match_with_choume for a gdf of one row
MatchRow(run) ==
    /\ run.master = choume_master
    /\ matched' = [op |-> "match_with_choume", address |-> run.address,
                   candidates |-> run.extracted,
                   name |-> IF IsNull(run.found) THEN NULL ELSE Some(Val(run.found).name),
                   code |-> IF IsNull(run.found) THEN NULL ELSE Some(Val(run.found).code)]
    /\ UNCHANGED <<land_prices_kokudo, kokudo_id_seq, land_prices, land_prices_id_seq,
                   converted, extracted, result, choume_master, main_run, sessions,
                   other_order, last>>

\* update_database (12_import_kokudo_data.py, lines 149-231) for one feature:
\* the pattern normalize_address_for_matching gives for its address, and the
\* UPDATE of the rows of 2021 whose address, digits half-width, is LIKE
\* %pattern%
NormalizeForMatching(run) ==
    /\ matched' = [op |-> "normalize_address_for_matching", address |-> run.address,
                   candidates |-> <<run.pattern>>, name |-> NULL, code |-> NULL]
    /\ land_prices' =
           IF run.pattern = <<>> THEN land_prices
           ELSE {IF /\ row.survey_year = Some(DefaultYear)
                    /\ ~IsNull(row.original_address)
                    /\ Contains(Translate(Val(row.original_address)), run.pattern)
                 THEN [row EXCEPT !.land_area = GeojsonData(run.address).land_area]
                 ELSE row : row \in land_prices}
    /\ UNCHANGED <<land_prices_kokudo, kokudo_id_seq, land_prices_id_seq, converted,
                   extracted, result, choume_master, main_run, sessions, other_order,
                   last>>

NextMatch ==
    \/ \E run \in MatchRuns : MatchRow(run)
    \/ \E run \in NormalizeRuns : NormalizeForMatching(run)

SpecMatch == InitMatch /\ [][NextMatch]_vars

----------------------------------------------------------------------------
(* The same yearly extracts imported in two orders: main over the years in  *)
(* ascending order, and a second database that gets them in another order   *)

OrderYears == <<2015, 2020, 2024>>

\* the extract of a year: without the lot, with it, or, in 2024, two lots of
\* which one does not fit road_direction
OrderExtracts(year) ==
    SeriesExtracts(year)
        \cup (IF year = 2024
              THEN {<<RawRow(AddrOtherLot, Price650, Str(DirOk)),
                      RawRow(AddrThirdLot, Price650, Str(DirTooLong))>>,
                    <<RawRow(AddrThirdLot, Price650, Str(DirTooLong)),
                      RawRow(AddrHyphen, Price660, Str(DirOk))>>}
              ELSE {})

RECURSIVE OrderPlans(_)
OrderPlans(i) ==
    IF i > Len(OrderYears) THEN {<<>>}
    ELSE {<<[year |-> OrderYears[i], gdf |-> gdf]>> \o rest :
            gdf \in OrderExtracts(OrderYears[i]), rest \in OrderPlans(i + 1)}

\* the orders in which n years can be imported
ImportOrders(n) ==
    {p \in [1..n -> 1..n] : \A i, j \in 1..n : p[i] = p[j] => i = j}

Permuted(plan, p) == [i \in 1..Len(plan) |-> plan[p[i]]]

\* what the two imports leave
OrderTables ==
    {[first |-> ImportPlan(plan, {}, 1),
      second |-> ImportPlan(Permuted(plan, p), {}, 1)] :
        plan \in OrderPlans(1), p \in ImportOrders(Len(OrderYears))}

InitOrder ==
    /\ \E t \in OrderTables :
           /\ land_prices_kokudo = t.first.rows
           /\ kokudo_id_seq = t.first.seq
           /\ other_order = [rows |-> t.second.rows, result |-> EmptyDict]
    /\ land_prices = {}
    /\ land_prices_id_seq = 1
    /\ converted = <<>>
    /\ extracted = <<>>
    /\ result = EmptyDict
    /\ choume_master = <<>>
    /\ matched = NoMatch
    /\ last = NoCall
    /\ main_run = NoRun
    /\ sessions = NoSessions

\* fetch for the same block on both databases
FetchBoth(choume) ==
    /\ result' = fetch(land_prices_kokudo, choume)
    /\ other_order' = [other_order EXCEPT !.result = fetch(other_order.rows, choume)]
    /\ last' = [op |-> "fetch", year |-> 0, records |-> <<choume>>, success_count |-> 0,
                error_count |-> 0, repeat |-> FALSE]
    /\ UNCHANGED <<land_prices_kokudo, kokudo_id_seq, land_prices, land_prices_id_seq,
                   converted, extracted, choume_master, matched, main_run, sessions>>

NextOrder == \E choume \in Choumes : FetchBoth(choume)

SpecOrder == InitOrder /\ [][NextOrder]_vars

----------------------------------------------------------------------------
(* Two import runs at the same time, each on its own connection, under      *)
(* READ COMMITTED: a statement sees the rows committed before it starts and *)
(* waits for a row another open transaction has written                     *)

\* the records of the lot sakura 1-2-3 for 2018: as surveyed, with a
\* corrected price, and written in full width with another latitude
SessionRecords ==
    {extract_records(<<row>>, 2018, get_field_mapping(file_config_pattern(2018)), 1)[1] :
        row \in {RawRow(AddrHyphen, Price650, Str(DirOk)),
                 RawRow(AddrHyphen, Price660, Str(DirOk)),
                 [RawRow(AddrFullWidth, Price650, Str(DirOk))
                     EXCEPT !.latitude = Some(36)]}}

\* table choume of the runs
SessionMaster == <<[name |-> Sakura \o <<"1">> \o Chome, code |-> "13112001001"]>>

\* the entries of geojson_data for the lot sakura 1-chome 2-ban: as surveyed,
\* written with the city, and with another price and area
SessionData ==
    {GeojsonData(AddrChome),
     GeojsonData(Tokyo \o Setagaya \o AddrChome),
     [GeojsonData(AddrChome) EXCEPT !.official_price = Some(660000),
                                    !.land_area = Some(130)]}

\* the codes the loop of lines 288-295 can find for an entry, <<>> when it
\* finds none
CodesFound(data) ==
    UNION {LET matched_name == FirstInMap(SessionMaster, candidates)
           IN IF IsNull(matched_name) THEN {NULL}
              ELSE {Some(c) : c \in ChoumeMapGet(SessionMaster,
                                                 normalize_string(Val(matched_name)))} :
           candidates \in extract_choume_candidates(data.original_address)}

SessionCodes ==
    UNION {{[data |-> data, code |-> code] : code \in CodesFound(data)} :
           data \in SessionData}

\* the run of one connection: its program, its input, where it is, the id
\* its SELECT found, and the rows it has written and not committed
Session(program, data) ==
    [program |-> program, data |-> data, pc |-> "begin", existing |-> NULL,
     pending |-> {}]

\* the rows another open transaction has written
LockedBy(s) == sessions[3 - s].pending

\* the committed rows with the rows of the transaction in place of those of
\* the same id
Merge(rows, pending) ==
    {r \in rows : ~\E w \in pending : w.id = r.id} \cup pending

InitConcurrent ==
    /\ \/ /\ sessions \in {<<Session("import_to_db", a), Session("import_to_db", b)>> :
                               a, b \in SessionRecords}
          /\ \/ land_prices_kokudo = {} /\ kokudo_id_seq = 1
             \/ \E record \in SessionRecords :
                    /\ land_prices_kokudo = {InsertedRow(1, record)}
                    /\ kokudo_id_seq = 2
          /\ land_prices = {}
          /\ land_prices_id_seq = 1
       \/ /\ sessions \in {<<Session("import_year_data", a),
                             Session("import_year_data", b)>> : a, b \in SessionData}
          /\ \/ land_prices = {} /\ land_prices_id_seq = 1
             \/ /\ land_prices = {GeojsonRow(1, SessionMaster[1].code, DefaultYear,
                                             GeojsonData(AddrChome))}
                /\ land_prices_id_seq = 2
          /\ land_prices_kokudo = {}
          /\ kokudo_id_seq = 1
    /\ converted = <<>>
    /\ extracted = <<>>
    /\ result = [empty |-> TRUE]
    /\ choume_master = SessionMaster
    /\ matched = NoMatch
    /\ last = NoCall
    /\ main_run = NoRun
    /\ other_order = NoOrder

\* import_year_data, lines 255-257: the SELECT of the rows of the year and
\* existing_map read at the address of the entry
ReadExisting(s) ==
    LET me == sessions[s]
        ids == ExistingMapGet(land_prices, DefaultYear,
                              normalize_address_multi(me.data.original_address))
    IN /\ me.program = "import_year_data"
       /\ me.pc = "begin"
       /\ \E existing \in (IF ids = {} THEN {NULL} ELSE {Some(id) : id \in ids}) :
              sessions' = [sessions EXCEPT ![s].pc = "read", ![s].existing = existing]
       /\ UNCHANGED <<land_prices_kokudo, kokudo_id_seq, land_prices, land_prices_id_seq,
                      converted, extracted, result, choume_master, matched, last,
                      main_run, other_order>>

\* import_year_data, lines 262-318: the UPDATE of the row found by the
\* SELECT, or else the INSERT
WriteEntry(s) ==
    LET me == sessions[s]
    IN /\ me.program = "import_year_data"
       /\ me.pc = "read"
       /\ IF ~IsNull(me.existing)
          THEN /\ ~\E w \in LockedBy(s) : w.id = Val(me.existing)
               /\ sessions' =
                      [sessions EXCEPT
                          ![s].pc = "written",
                          ![s].pending =
                              {[row EXCEPT
                                   !.official_price = Coalesce(@, me.data.official_price),
                                   !.land_area = me.data.land_area] :
                                  row \in {r \in land_prices : r.id = Val(me.existing)}}]
               /\ UNCHANGED land_prices_id_seq
          ELSE \E match \in SessionCodes :
                  /\ match.data = me.data
                  /\ IF IsNull(match.code)
                     THEN /\ sessions' = [sessions EXCEPT ![s].pc = "written"]
                          /\ UNCHANGED land_prices_id_seq
                     ELSE LET new == GeojsonRow(land_prices_id_seq, Val(match.code),
                                                DefaultYear, me.data)
                          IN /\ ~\E w \in LockedBy(s) : LandPriceConflicts(w, new)
                             /\ sessions' =
                                    [sessions EXCEPT
                                        ![s].pc = "written",
                                        ![s].pending =
                                            GeojsonUpsert(land_prices, new) \ land_prices]
                             /\ land_prices_id_seq' = land_prices_id_seq + 1
       /\ UNCHANGED <<land_prices_kokudo, kokudo_id_seq, land_prices, converted,
                      extracted, result, choume_master, matched, last, main_run,
                      other_order>>

\* import_to_db, lines 338-349: the INSERT ... ON CONFLICT DO UPDATE of the
\* record; it waits while another transaction holds a row of the same key
WriteRecord(s) ==
    LET me == sessions[s]
    IN /\ me.program = "import_to_db"
       /\ me.pc = "begin"
       /\ ~\E w \in LockedBy(s) : Conflicts(w, me.data)
       /\ sessions' =
              [sessions EXCEPT
                  ![s].pc = "written",
                  ![s].pending =
                      Upsert(land_prices_kokudo, kokudo_id_seq, me.data)
                          \ land_prices_kokudo]
       /\ kokudo_id_seq' = kokudo_id_seq + 1
       /\ UNCHANGED <<land_prices_kokudo, land_prices, land_prices_id_seq, converted,
                      extracted, result, choume_master, matched, last, main_run,
                      other_order>>

\* conn.commit() (import_to_db line 358, import_year_data line 323)
Commit(s) ==
    LET me == sessions[s]
    IN /\ me.pc = "written"
       /\ sessions' = [sessions EXCEPT ![s].pc = "committed", ![s].pending = {}]
       /\ IF me.program = "import_to_db"
          THEN /\ land_prices_kokudo' = Merge(land_prices_kokudo, me.pending)
               /\ UNCHANGED land_prices
          ELSE /\ land_prices' = Merge(land_prices, me.pending)
               /\ UNCHANGED land_prices_kokudo
       /\ UNCHANGED <<kokudo_id_seq, land_prices_id_seq, converted, extracted, result,
                      choume_master, matched, last, main_run, other_order>>

NextConcurrent ==
    \E s \in {1, 2} :
        \/ ReadExisting(s)
        \/ WriteEntry(s)
        \/ WriteRecord(s)
        \/ Commit(s)

SpecConcurrent == InitConcurrent /\ [][NextConcurrent]_vars

----------------------------------------------------------------------------
(* scripts/import_kokudo_all_years.py: main, the loop over the years *)

\* the years whose file can be there
FileYears == {2017, 2018, 2024}

\* the rows of the city a file of the year can hold
MainExtracts(year) ==
    IF year >= 2018
    THEN {<<RawRow(AddrHyphen, Price650, Str(DirOk))>>,
          <<RawRow(AddrThirdLot, Price650, Str(DirTooLong)),
            RawRow(AddrHyphen, Price650, Str(DirOk))>>,
          <<RawRow(AddrOtherLot, Price650, Str(DirOk)),
            RawRow(AddrThirdLot, Price650, Str(DirTooLong))>>}
    ELSE {<<RawRow(AddrHyphen, Price650, NaN)>>}

\* the records extract_records returns for them (line 517)
MainRuns ==
    UNION {{[year |-> year, gdf |-> gdf,
             records |-> extract_records(gdf, year,
                                         get_field_mapping(file_config_pattern(year)), 1)] :
                gdf \in MainExtracts(year)} : year \in FileYears}

\* a mutation of FailYear: the loop is left at the first failed year
FailYearAborts(m) ==
    [m EXCEPT !.pc = "done",
              !.attempted = Append(@, m.year),
              !.failed_years = Append(@, m.year)]

\* failed_years.append(year); continue (lines 491-492, 513-514, 531-532)
FailYear(m) ==
    [m EXCEPT !.year = @ + 1,
              !.attempted = Append(@, m.year),
              !.failed_years = Append(@, m.year)]

\* a mutation of SucceedYear: the year is not added to success_years
SucceedYearUnrecorded(m, success) ==
    [m EXCEPT !.year = @ + 1,
              !.attempted = Append(@, m.year),
              !.total_imported = @ + success]

\* total_imported += success; success_years.append(year) (lines 524-525)
SucceedYear(m, success) ==
    [m EXCEPT !.year = @ + 1,
              !.attempted = Append(@, m.year),
              !.total_imported = @ + success,
              !.success_years = Append(@, m.year)]

\* what main did for the year
MainCall(year, outcome, records, success, errors) ==
    [op |-> "main", year |-> year, records |-> records, success_count |-> success,
     error_count |-> errors, repeat |-> FALSE, outcome |-> outcome]

\* the iteration for the year has begun (line 479)
InLoop == main_run.pc = "loop" /\ main_run.year \in FirstYear..LastYear

InitMain ==
    /\ land_prices_kokudo = {}
    /\ kokudo_id_seq = 1
    /\ land_prices = {}
    /\ land_prices_id_seq = 1
    /\ converted = <<>>
    /\ extracted = <<>>
    /\ result = [empty |-> TRUE]
    /\ choume_master = <<>>
    /\ matched = NoMatch
    /\ last = NoCall
    /\ main_run = NoRun
    /\ sessions = NoSessions
    /\ other_order = NoOrder

\* psycopg2.connect, create_table and the three initial values (lines
\* 460-476): the loop starts, or main returns when the connection fails
Connect ==
    /\ main_run.pc = "none"
    /\ \/ main_run' = [main_run EXCEPT !.pc = "loop", !.year = FirstYear,
                                       !.conn = "open"]
       \/ main_run' = [main_run EXCEPT !.pc = "returned"]
    /\ UNCHANGED <<land_prices_kokudo, kokudo_id_seq, land_prices, land_prices_id_seq,
                   converted, extracted, result, choume_master, matched, last,
                   sessions, other_order>>

\* the year fails before anything is written: the file is missing (lines
\* 489-492), gpd.read_file raises (lines 496-499, 527-532), or the file has no
\* row of the city (lines 511-514)
YearFails(outcome) ==
    /\ InLoop
    /\ outcome = "missing" \/ main_run.year \in FileYears
    /\ main_run' = FailYear(main_run)
    /\ last' = MainCall(main_run.year, outcome, <<>>, 0, 0)
    /\ UNCHANGED <<land_prices_kokudo, kokudo_id_seq, land_prices, land_prices_id_seq,
                   converted, extracted, result, choume_master, matched, sessions,
                   other_order>>

\* the records of the year are extracted and imported (lines 517-525)
YearImported(run) ==
    LET out == import_to_db(land_prices_kokudo, kokudo_id_seq, run.records)
    IN /\ InLoop
       /\ main_run.year = run.year
       /\ main_run.conn = "open"
       /\ land_prices_kokudo' = out.rows
       /\ kokudo_id_seq' = out.seq
       /\ extracted' = run.records
       /\ main_run' = SucceedYear(main_run, out.success_count)
       /\ last' = MainCall(run.year, "imported", run.records, out.success_count,
                           out.error_count)
       /\ UNCHANGED <<land_prices, land_prices_id_seq, converted, result, choume_master,
                      matched, sessions, other_order>>

\* import_to_db raises: the connection is lost, so that conn.cursor(),
\* conn.rollback() or conn.commit() raise outside the try of the record;
\* nothing of the year is committed (lines 527-532)
YearImportRaises(run) ==
    /\ InLoop
    /\ main_run.year = run.year
    /\ extracted' = run.records
    /\ main_run' = [FailYear(main_run) EXCEPT !.conn = "broken"]
    /\ last' = MainCall(run.year, "raised", run.records, 0, 0)
    /\ UNCHANGED <<land_prices_kokudo, kokudo_id_seq, land_prices, land_prices_id_seq,
                   converted, result, choume_master, matched, sessions, other_order>>

\* the loop has ended: conn.close() and the summary (lines 534-549)
Finish ==
    /\ main_run.pc = "loop"
    /\ main_run.year > LastYear
    /\ main_run' = [main_run EXCEPT !.pc = "done", !.conn = "closed"]
    /\ UNCHANGED <<land_prices_kokudo, kokudo_id_seq, land_prices, land_prices_id_seq,
                   converted, extracted, result, choume_master, matched, last,
                   sessions, other_order>>

NextMain ==
    \/ Connect
    \/ \E outcome \in {"missing", "unreadable", "no rows"} : YearFails(outcome)
    \/ \E run \in MainRuns : YearImported(run)
    \/ \E run \in MainRuns : YearImportRaises(run)
    \/ Finish

SpecMain == InitMain /\ [][NextMain]_vars

\* the statements of main run one after the other: a step that can be taken
\* is taken
SpecMainFair == SpecMain /\ WF_vars(NextMain)

----------------------------------------------------------------------------
(* Claims about the upsert of import_to_db, checked under Spec *)

\* the stored row of a record: same key, and the columns the statement writes
StoredAs(row, record) ==
    /\ Conflicts(row, record)
    /\ row.official_price = record.official_price
    /\ row.road_direction = record.road_direction

KeyStored(rows, record) == \E row \in rows : Conflicts(row, record)

YearRows(rows, year) == {row \in rows : row.survey_year = year}

\* C1: running import_to_db a second time with a batch identical to the one
\* of the previous call leaves the table unchanged: the same set of rows, the
\* same number of rows, the same value in every column, no row duplicated.
C1_IdempotentReimport ==
    [][(last'.op = "import_to_db" /\ last'.repeat)
         => land_prices_kokudo' = land_prices_kokudo]_vars

\* a batch was imported twice in a row, and rows of it are stored
C1_Witness ==
    /\ last.repeat
    /\ last.success_count > 0
    /\ \E i \in 1..Len(last.records) : KeyStored(land_prices_kokudo, last.records[i])

\* C2: when one row of a batch fails to write, every other row of the batch
\* that was written without error, before or after the failing row, is in the
\* table once import_to_db has returned.
C2_FailureKeepsOtherRows ==
    last.op = "import_to_db" =>
        \A i \in 1..Len(last.records) :
            ~PgRejects(last.records[i]) => KeyStored(land_prices_kokudo, last.records[i])

\* new is old with a corrected address or with a corrected price
IsCorrection(old, new) ==
    /\ old # new
    /\ \/ [old EXCEPT !.original_address = new.original_address] = new
       \/ [old EXCEPT !.official_price = new.official_price] = new

\* the batch of this call is the batch of the previous call with record i corrected
CorrectedAt(before, after, i) ==
    /\ Len(after) = Len(before)
    /\ i \in 1..Len(before)
    /\ IsCorrection(before[i], after[i])
    /\ \A j \in 1..Len(before) : j # i => after[j] = before[j]

\* C4: re-importing a year whose input differs from the previous run only by
\* a correction (a fixed address, a fixed price) of a record that is stored
\* updates the stored row in place: the number of rows of the year is
\* unchanged, the row carries the corrected values, and no row with the
\* uncorrected values remains.
C4_CorrectionUpdatesInPlace ==
    [][\A i \in 1..Len(last.records) :
          (/\ last.op = "import_to_db"
           /\ last'.op = "import_to_db"
           /\ CorrectedAt(last.records, last'.records, i)
           /\ \E row \in land_prices_kokudo : StoredAs(row, last.records[i]))
          => (/\ Cardinality(YearRows(land_prices_kokudo', last.year))
                   = Cardinality(YearRows(land_prices_kokudo, last.year))
              /\ \E row \in land_prices_kokudo' : StoredAs(row, last'.records[i])
              /\ ~\E row \in land_prices_kokudo' : StoredAs(row, last.records[i]))]_vars

----------------------------------------------------------------------------
(* Claims about the land_prices pipeline, checked under SpecLandPrices *)

\* C3: after any sequence of import runs the table holds at most one row per
\* natural key: insert_to_database never leaves two land_prices rows with
\* equal choume_code, survey_year and original_address, also when the same
\* year is imported repeatedly.
C3_OneRowPerKey ==
    \A r1, r2 \in land_prices :
        (/\ r1.choume_code = r2.choume_code
         /\ r1.survey_year = r2.survey_year
         /\ r1.original_address = r2.original_address) => r1 = r2

\* the address with half-width digits and without the prefix up to the ward
AddressBody(address) ==
    LET a == Translate(address)
    IN IF Contains(a, <<"ku">>) THEN SubSeq(a, Find(a, <<"ku">>) + 1, Len(a)) ELSE a

\* the block an address names: <area><number>chome, written out or as the
\* first number of the hyphen form <area><number>-<number>
NamedBlocks(address) ==
    LET a == AddressBody(address)
        c == FirstMatch(a, 2, "chome")
        h == FirstMatch(a, 2, "hyphen")
    IN IF c > 0 THEN {SubSeq(a, 1, DigitRunEnd(a, c) + 2)}
       ELSE IF h > 0 THEN {SubSeq(a, 1, DigitRunEnd(a, h)) \o Chome}
       ELSE {}

\* C5: a record whose address matches no catalog block is Unresolved
\* ("UNKNOWN"); a record is given the code of a block only when its address
\* names that block, never by a guess such as a default sub-block number.
C5_NoGuessedBlock ==
    \A i \in 1..Len(converted) :
        converted[i].choume_code # UNKNOWN =>
            \E e \in SETAGAYA_CHOUME_MAP :
                /\ e.code = converted[i].choume_code
                /\ e.name \in NamedBlocks(converted[i].original_address)

----------------------------------------------------------------------------
(* Claims about LandPriceCollector.fetch, checked under SpecFetch *)

\* fetch has returned a result that is not {}
Fetched == last.op = "fetch" /\ ~result.empty

History == result.land_price_history

\* the stored records of the latest year of the returned series
LatestGroup ==
    Group(land_prices_kokudo, ChoumeBase(last.records[1]), History[Len(History)].year)

\* C6: every entry of land_price_history has point_count >= 1, and for a group
\* with integer point prices price_min <= price <= price_max, price being the
\* average rounded to an integer.
C6_AverageWithinRange ==
    Fetched =>
        \A i \in 1..Len(History) :
            /\ History[i].point_count >= 1
            /\ ~IsNull(History[i].price) =>
                  /\ ~IsNull(History[i].price_min)
                  /\ ~IsNull(History[i].price_max)
                  /\ Val(History[i].price_min) <= Val(History[i].price)
                  /\ Val(History[i].price) <= Val(History[i].price_max)

\* a year with two survey points of different price
C6_Witness ==
    /\ Fetched
    /\ \E i \in 1..Len(History) :
          /\ History[i].point_count = 2
          /\ Val(History[i].price_min) < Val(History[i].price_max)

TextAttributes == {"land_use", "road_direction"}

NumberAttributes ==
    {"building_coverage_ratio", "floor_area_ratio", "road_width", "land_area",
     "station_distance"}

Attributes == TextAttributes \cup NumberAttributes

\* C7: the records of one block-year aggregate into exactly one yearly row;
\* each optional attribute of that row is non-null whenever some record of the
\* group has it, and is the value of the record that has it when only one
\* does: a record with only land_use and one with only road_width give a row
\* with both.
C7_AttributesOfAllRecords ==
    Fetched =>
        /\ \A i, j \in 1..Len(History) : History[i].year = History[j].year => i = j
        /\ History[Len(History)].point_count = Cardinality(LatestGroup)
        /\ \A attr \in Attributes : \A r \in LatestGroup :
              ~IsNull(r[attr]) =>
                  /\ ~IsNull(result[attr])
                  /\ (\A o \in LatestGroup \ {r} : IsNull(o[attr])) => result[attr] = r[attr]

\* two records in the latest year, one with only land_use, the other with
\* only road_width, and a result with both
C7_Witness ==
    /\ Fetched
    /\ Len(History) = 1
    /\ \E a, b \in LatestGroup :
          /\ LatestGroup = {a, b}
          /\ ~IsNull(a.land_use) /\ IsNull(a.road_width)
          /\ IsNull(b.land_use) /\ ~IsNull(b.road_width)
          /\ result.land_use = a.land_use
          /\ result.road_width = b.road_width

\* the records of the group that have the attribute
Having(attr) == NotNullIn(LatestGroup, attr)

\* the record added last among those that have the attribute
LastAdded(attr) == CHOOSE r \in Having(attr) : \A o \in Having(attr) : o.id <= r.id

\* C8 as stated: the aggregated row takes, per attribute, the value of the
\* most recently added record of the group that has the attribute non-null.
C8_LastAddedWins ==
    Fetched =>
        \A attr \in Attributes :
            Having(attr) # {} => result[attr] = LastAdded(attr)[attr]

AttrLessEq(attr, x, y) == IF attr \in TextAttributes THEN TextLessEq(x, y) ELSE x <= y

\* C8 amended: the aggregated row takes, per attribute, the greatest of the
\* non-null values of the group's records, whatever the order in which the
\* records were added.
C8_GreatestWins ==
    Fetched =>
        \A attr \in Attributes :
            Having(attr) # {} =>
                /\ \E r \in Having(attr) : result[attr] = r[attr]
                /\ \A r \in Having(attr) : AttrLessEq(attr, Val(r[attr]), Val(result[attr]))

\* two records with different land_use, the greater one added first, and
\* two with different road_width, the greater one added first
C8_Witness ==
    /\ Fetched
    /\ \E attr \in {"land_use", "road_width"} :
          /\ Cardinality(Having(attr)) = 2
          /\ result[attr] # LastAdded(attr)[attr]
          /\ \A r \in Having(attr) : AttrLessEq(attr, Val(r[attr]), Val(result[attr]))

\* C9: change rates take their denominator by position in the series of years
\* present, sorted by year: the change of an entry is computed against the
\* entry just before it, the full-span change of the latest entry against the
\* first entry; averages 600000, 660000, 720000 in 2000, 2005, 2010 give
\* 100/11 percent (9.09...) and 20 percent for 2010.
C9_ChangeByPosition ==
    Fetched =>
        LET n == Len(History)
        IN /\ \A i \in 2..n : History[i - 1].year < History[i].year
           /\ \A i \in 2..n :
                 Positive(History[i - 1].price) =>
                     History[i].change =
                         Frac((Val(History[i].price) - Val(History[i - 1].price)) * 100,
                              Val(History[i - 1].price))
           /\ Positive(History[1].price) =>
                 result.price_change_26y =
                     Frac((Val(History[n].price) - Val(History[1].price)) * 100,
                          Val(History[1].price))
           /\ (/\ n = 3
               /\ <<History[1].year, History[2].year, History[3].year>> = <<2000, 2005, 2010>>
               /\ <<History[1].price, History[2].price, History[3].price>>
                      = <<Some(600000), Some(660000), Some(720000)>>) =>
                 /\ History[3].change = [num |-> 100, den |-> 11]
                 /\ result.price_change_26y = [num |-> 20, den |-> 1]

\* the series of the example has been fetched
C9_Witness ==
    /\ Fetched
    /\ Len(History) = 3
    /\ <<History[1].year, History[2].year, History[3].year>> = <<2000, 2005, 2010>>
    /\ <<History[1].price, History[2].price, History[3].price>>
           = <<Some(600000), Some(660000), Some(720000)>>
    /\ History[3].change = [num |-> 100, den |-> 11]
    /\ result.price_change_26y = [num |-> 20, den |-> 1]

\* C10: price_change_5y takes as denominator the average of the entry exactly
\* five positions before the latest in the series of years present, and is
\* computed exactly when the series has such an entry.
C10_FivePositionsEarlier ==
    Fetched =>
        LET n == Len(History)
        IN /\ (n > FiveYears /\ Positive(History[n - FiveYears].price)) =>
                 result.price_change_5y =
                     Frac((Val(History[n].price) - Val(History[n - FiveYears].price)) * 100,
                          Val(History[n - FiveYears].price))
           /\ n <= FiveYears => result.price_change_5y = Zero

\* the value is a number, not None
IsNumber(x) == DOMAIN x = {"num", "den"}

\* the stored series of the block asked for is not empty
SeriesStored == Query(land_prices_kokudo, ChoumeBase(last.records[1])) # <<>>

\* C11: each of the three change rates is null, not zero or another number,
\* whenever the series has no entry at the denominator position or the
\* denominator average is zero or null; computing the rates never raises and
\* never discards the rest of the series.
C11_NullWithoutDenominator ==
    last.op = "fetch" =>
        /\ SeriesStored => ~result.empty
        /\ Fetched =>
              LET n == Len(History)
              IN /\ \A i \in 1..n :
                       (i = 1 \/ ~Positive(History[i - 1].price)) =>
                           ~IsNumber(History[i].change)
                 /\ ~Positive(History[1].price) => ~IsNumber(result.price_change_26y)
                 /\ n < FiveYears => ~IsNumber(result.price_change_5y)
                 /\ (n < 2 \/ ~Positive(History[n - 1].price)) =>
                       ~IsNumber(result.price_change_1y)

----------------------------------------------------------------------------
(* Claims about extract_records, checked under SpecExtract *)

\* extract_records has returned the record of the one row it was given
Extracted == last.op = "extract_records" /\ Len(extracted) = 1

\* the price cell of that row
PriceCell == last.records[1].price

\* the integer the price cell parses to: a number cell, or a string of digits
ParsedPrice ==
    IF PriceCell.t = "num" THEN PriceCell.n ELSE DecimalValue(PriceCell.s)

HasParsedPrice ==
    \/ PriceCell.t = "num"
    \/ PriceCell.t = "str" /\ PriceCell.s # <<>>
          /\ \A i \in 1..Len(PriceCell.s) : PriceCell.s[i] \in Digits

\* C12: a parsed integer price p is stored as p * 100 when p < 10000 and as p
\* when p >= 10000; the correction is applied once (500 gives 50000, 650000
\* stays 650000).
C12_SanitizedPrice ==
    (Extracted /\ HasParsedPrice) =>
        /\ ParsedPrice < 10000 => extracted[1].official_price = Some(ParsedPrice * 100)
        /\ ParsedPrice >= 10000 => extracted[1].official_price = Some(ParsedPrice)
        /\ ParsedPrice = 500 => extracted[1].official_price = Some(50000)
        /\ ParsedPrice = 650000 => extracted[1].official_price = Some(650000)

\* a price of 500 has been extracted as 50000
C12_Witness ==
    /\ Extracted
    /\ HasParsedPrice
    /\ ParsedPrice = 500
    /\ extracted[1].official_price = Some(50000)

\* the price cell is a placeholder, is missing, or does not parse
NoParsedPrice == ~HasParsedPrice

\* the sanitizing half of C13: a row whose price cell is a placeholder, is
\* missing or does not parse is kept, with a null price and its other
\* attributes
SentinelPriceIsNull ==
    (last.op = "extract_records" /\ notna(last.records[1].address) /\ NoParsedPrice) =>
        /\ Len(extracted) = 1
        /\ IsNull(extracted[1].official_price)
        /\ extracted[1].land_area = Some(120)
        /\ last.year >= 2018 => extracted[1].road_direction = Some(DirOk)

\* C13: a record whose raw price is a sentinel token or does not parse is kept
\* with a null price, and its other attributes are still stored and
\* aggregated: a stored record of the block asked for that has no price is part
\* of the returned series, and the attributes it carries in the latest year are
\* in the result.  Checked under SpecFetch.
C13_NullPriceRecordAggregated ==
    last.op = "fetch" =>
        \A r \in land_prices_kokudo :
            (IsNull(r.official_price) /\ Like(r, ChoumeBase(last.records[1]))) =>
                /\ ~result.empty
                /\ \E i \in 1..Len(History) : History[i].year = r.survey_year
                /\ r.survey_year = History[Len(History)].year =>
                      \A attr \in Attributes : ~IsNull(r[attr]) => ~IsNull(result[attr])

----------------------------------------------------------------------------
(* Claims about the candidates of import_year_data, checked under           *)
(* SpecImportYear                                                           *)

\* an address without spaces, with half-width digits and without the city
\* prefix (the prefecture, the ward)
PrefixFree(address) ==
    LET a == Translate(SelectSeq(address, LAMBDA c : ~IsSpace(c)))
        b == IF PrefixOf(Tokyo, a) THEN SubSeq(a, Len(Tokyo) + 1, Len(a)) ELSE a
    IN IF PrefixOf(Setagaya, b) THEN SubSeq(b, Len(Setagaya) + 1, Len(b)) ELSE b

\* <area><digits>chome when the address writes the block out, <<>> otherwise
WrittenBlock(address) ==
    LET a == PrefixFree(address)
        c == FirstMatch(a, 2, "chome")
    IN IF c > 0 THEN Some(SubSeq(a, 1, DigitRunEnd(a, c) + 2)) ELSE NULL

Imported == matched.op = "import_year_data"

\* C14: for an address that, without its city prefix and with half-width
\* digits, reads <area><digits>chome..., the first candidate returned is
\* exactly <area><digits>chome ("Tokyo-to sangenjaya 2-chome" gives
\* "sangenjaya 2-chome").
C14_FirstCandidateIsBlock ==
    (Imported /\ ~IsNull(WrittenBlock(matched.address)))
        => /\ matched.candidates # <<>>
           /\ matched.candidates[1] = Val(WrittenBlock(matched.address))

\* the place of a candidate in the order the candidates are produced: the
\* written block, its kanji variant, the block of the hyphen form, its kanji
\* variant, the area name
Rank(address, candidate) ==
    LET ranked == CandidateList(address)
    IN CHOOSE i \in 1..Len(ranked) :
           /\ ranked[i] = candidate
           /\ \A j \in 1..(i - 1) : ranked[j] # candidate

\* the candidate is a name of table choume
InMaster(candidate) ==
    \E i \in 1..Len(choume_master) :
        normalize_string(choume_master[i].name) = normalize_string(candidate)

\* C16: the candidate list has no duplicates and is in rank order, the area
\* name last; the matcher takes a candidate only when every candidate of
\* higher rank is not a name of the catalog.
C16_RankOrder ==
    Imported =>
        LET l == matched.candidates
        IN /\ \A i, j \in 1..Len(l) : l[i] = l[j] => i = j
           /\ \A i, j \in 1..Len(l) :
                  i < j => Rank(matched.address, l[i]) < Rank(matched.address, l[j])
           /\ ~IsNull(matched.name) =>
                  \A i \in 1..Len(l) :
                      Rank(matched.address, l[i]) < Rank(matched.address, Val(matched.name))
                          => ~InMaster(l[i])

----------------------------------------------------------------------------
(* Claims about match_with_choume and the block names of the archive        *)
(* importers, checked under SpecMatch                                       *)

\* every hyphen glyph written as the hyphen-minus
PlainHyphens(s) == [i \in 1..Len(s) |-> IF s[i] \in Glyphs THEN "-" ELSE s[i]]

\* <area><first number>chome for an address of the form
\* <area><digits>-<digits>..., <<>> for another address
SynthesizedBlock(address) ==
    LET a == PlainHyphens(Translate(address))
        h == FirstMatch(a, 2, "hyphen")
    IN IF FirstMatch(a, 2, "chome") = 0 /\ h > 0
       THEN Some(SubSeq(a, 1, DigitRunEnd(a, h)) \o Chome)
       ELSE NULL

\* C15: an address of the form <area><digits>-<digits>... in full-width
\* digits, with any of the hyphen glyphs, gives the block name
\* <area><first number>chome ("sakurajousui 5-40-10" gives
\* "sakurajousui 5-chome").
C15_HyphenFormSynthesized ==
    (/\ matched.op \in {"match_with_choume", "normalize_address_for_matching"}
     /\ ~IsNull(SynthesizedBlock(matched.address)))
        => \E i \in 1..Len(matched.candidates) :
               matched.candidates[i] = Val(SynthesizedBlock(matched.address))

\* a row has been matched and a block name was extracted from its address
Matching == matched.op = "match_with_choume" /\ ~IsNull(matched.candidates)

ExtractedName == Val(matched.candidates)

\* a name without the block-unit marker
Unmarked(name) == SelectSeq(Replace(name, Chome, <<>>), LAMBDA c : ~IsSpace(c))

MasterRows == {choume_master[i] : i \in 1..Len(choume_master)}

\* tier 1: the rows of the catalog with exactly the extracted name
Tier1 == {row \in MasterRows : row.name = ExtractedName}

\* tier 2: the rows equal to it once the marker is removed from both
Tier2 == {row \in MasterRows : Unmarked(row.name) = Unmarked(ExtractedName)}

\* the length of the overlap of a catalog name and the extracted name when one
\* contains the other, 0 when neither does
Overlap(row) ==
    LET db == Unmarked(row.name)
        ex == Unmarked(ExtractedName)
    IN IF db # <<>> /\ Contains(ex, db) THEN Len(db)
       ELSE IF ex # <<>> /\ Contains(db, ex) THEN Len(ex)
       ELSE 0

\* tier 3: the rows that contain the extracted name or are contained in it
Tier3 == {row \in MasterRows : Overlap(row) > 0}

\* the rows of tier 3 with the greatest overlap
Longest == {row \in Tier3 : \A other \in Tier3 : Overlap(other) <= Overlap(row)}

ResolvedIn(rows) ==
    \E row \in rows : matched.name = Some(row.name) /\ matched.code = Some(row.code)

\* C17: the matcher resolves by tiers: the exact name, then the name without
\* the marker chome, then containment; a containment match never replaces
\* an exact or unmarked match that the catalog holds, whatever the order of
\* the catalog.
C17_TierPrecedence ==
    Matching =>
        /\ Cardinality(Tier1) = 1 => ResolvedIn(Tier1)
        /\ (Tier1 = {} /\ Cardinality(Tier2) = 1) => ResolvedIn(Tier2)

\* C18: when several catalog names match by containment, the one with the
\* greatest overlap with the candidate is taken, whatever the order of the
\* catalog.
C18_LongestMatchWins ==
    (/\ Matching
     /\ Tier1 = {}
     /\ Tier2 = {}
     /\ Cardinality(Tier3) > 1
     /\ Cardinality(Longest) = 1)
        => ResolvedIn(Longest)

\* C19: when two or more catalog names match by containment with the same
\* greatest overlap, the record is left without a block code.
C19_TieIsUnresolved ==
    (/\ Matching
     /\ Tier1 = {}
     /\ Tier2 = {}
     /\ Cardinality(Longest) > 1)
        => IsNull(matched.code) /\ IsNull(matched.name)

----------------------------------------------------------------------------
(* Claims about the field mappings, checked under SpecExtract *)

RequiredRoles == {"city_code", "address", "price"}

ProfileNames == {"pattern_A", "pattern_B", "pattern_C", "pattern_C_v2", "pattern_C_v2_2024"}

FieldMappingReturned == last.op = "get_field_mapping"

\* C20: every survey year 2000..2025 selects exactly one profile, by the year
\* alone, and every profile defines the roles city_code, address and price;
\* a year or a pattern name without a profile is reported as a failure and
\* never yields an empty field map.
C20_ProfileOrFailure ==
    FieldMappingReturned =>
        /\ last.year \in FirstYear..LastYear =>
               /\ Cardinality({name \in ProfileNames : name = last.pattern}) = 1
               /\ RequiredRoles \subseteq last.field_mapping
        /\ last.pattern \notin ProfileNames => last.raised
        /\ ~last.raised => last.field_mapping # {}

\* the part of C20 about the years of main: each selects one profile, which
\* defines the three roles
EveryYearHasProfile ==
    (FieldMappingReturned /\ last.year \in FirstYear..LastYear)
        => /\ last.pattern \in ProfileNames
           /\ RequiredRoles \subseteq last.field_mapping

\* the part of C15 about extract_choume_candidates, under SpecImportYear:
\* every hyphen glyph gives the synthesized block name among the candidates
CandidatesIncludeSynthesized ==
    (Imported /\ ~IsNull(SynthesizedBlock(matched.address)))
        => \E i \in 1..Len(matched.candidates) :
               matched.candidates[i] = Val(SynthesizedBlock(matched.address))

----------------------------------------------------------------------------
(* Claims about the transaction of import_to_db, checked under Spec *)

\* the records of a batch have pairwise distinct keys
DistinctKeys(records) ==
    \A i, j \in 1..Len(records) :
        (/\ records[i].survey_year = records[j].survey_year
         /\ records[i].original_address = records[j].original_address) => i = j

\* C24: the import of one year is atomic for that year: after it ends either
\* every record extracted for the year has a row in the table, or the run has
\* left the table as it was; a failure never leaves a part of the year stored.
C24_YearIsAtomic ==
    [][(last'.op = "import_to_db")
         => \/ \A i \in 1..Len(last'.records) :
                   KeyStored(land_prices_kokudo', last'.records[i])
            \/ land_prices_kokudo' = land_prices_kokudo]_vars

\* C25: a key that is in the table is still in the table after every later
\* run of import_to_db, whatever the year and the input of the run and
\* whether or not records of it fail: the set of stored keys never shrinks.
C25_KeysNeverShrink ==
    [][\A row \in land_prices_kokudo :
           \E kept \in land_prices_kokudo' :
               /\ kept.survey_year = row.survey_year
               /\ kept.original_address = row.original_address]_vars

\* a run in which a record failed has returned, and the table holds a row of
\* another year, committed by an earlier run
C25_Witness ==
    /\ last.op = "import_to_db"
    /\ last.error_count > 0
    /\ \E row \in land_prices_kokudo : row.survey_year # last.year

\* the records of the last batch whose write is in effect in the table
InEffect ==
    {i \in 1..Len(last.records) :
        \E row \in land_prices_kokudo : StoredAs(row, last.records[i])}

\* C29: the success count import_to_db returns is the number of records of
\* the batch whose write is in effect in the table when the call has
\* returned; a record whose write was undone is not counted.
C29_CountIsWritesInEffect ==
    (last.op = "import_to_db" /\ DistinctKeys(last.records))
        => last.success_count = Cardinality(InEffect)

\* the columns the DO UPDATE clause does not assign
SameOutsideUpdate(old, new) ==
    /\ new.id = old.id
    /\ new.choume_code = old.choume_code
    /\ new.survey_year = old.survey_year
    /\ new.original_address = old.original_address
    /\ new.data_source = old.data_source
    /\ new.latitude = old.latitude
    /\ new.longitude = old.longitude
    /\ new.created_at = old.created_at

\* C30: a run of import_to_db changes, of a row that is already stored, only
\* official_price, land_area, land_use, building_coverage_ratio,
\* floor_area_ratio, road_direction, road_width, nearest_station and
\* station_distance, and only when a record of the batch has the key of the
\* row; id, choume_code, data_source, latitude, longitude and created_at of
\* the row, and every row whose key is not in the batch, are unchanged.
C30_UpdateFrame ==
    [][(last'.op = "import_to_db")
         => \A row \in land_prices_kokudo :
                /\ \E new \in land_prices_kokudo' : SameOutsideUpdate(row, new)
                /\ (~\E i \in 1..Len(last'.records) : Conflicts(row, last'.records[i]))
                       => row \in land_prices_kokudo']_vars

\* a record whose key was stored by an earlier run has been imported with
\* another latitude: the row has the values of the record in the assigned
\* columns and the latitude of its first import
C30_Witness ==
    /\ last.op = "import_to_db"
    /\ \E i \in 1..Len(last.records) :
           \E row \in land_prices_kokudo :
               /\ StoredAs(row, last.records[i])
               /\ row.latitude # last.records[i].latitude
               /\ row.id < kokudo_id_seq - Len(last.records)

----------------------------------------------------------------------------
(* Claims about groups without a price, checked under SpecFetch *)

\* the stored records of the block asked for in the year
StoredGroup(year) == Group(land_prices_kokudo, ChoumeBase(last.records[1]), year)

\* every record of the group has a null price
AllNull(group) == group # {} /\ \A r \in group : IsNull(r.official_price)

\* C26: a block-year group in which every record has a null price gives one
\* entry of the series for that year, with point_count >= 1 and null price,
\* price_min and price_max; the attributes its records carry are in the
\* result when the year is the latest; the rest of the series is returned.
C26_AllNullGroupKept ==
    last.op = "fetch" =>
        \A year \in {r.survey_year : r \in land_prices_kokudo} :
            AllNull(StoredGroup(year)) =>
                /\ ~result.empty
                /\ Cardinality({i \in 1..Len(History) : History[i].year = year}) = 1
                /\ \A i \in 1..Len(History) :
                       History[i].year = year =>
                           /\ History[i].point_count >= 1
                           /\ IsNull(History[i].price)
                           /\ IsNull(History[i].price_min)
                           /\ IsNull(History[i].price_max)
                /\ year = History[Len(History)].year =>
                       \A attr \in Attributes : \A r \in StoredGroup(year) :
                           ~IsNull(r[attr]) => ~IsNull(result[attr])
                /\ Len(History)
                       = Cardinality({r.survey_year :
                             r \in {s \in land_prices_kokudo :
                                       Like(s, ChoumeBase(last.records[1]))}})

----------------------------------------------------------------------------
(* Claims about per-record errors, checked under SpecLandPrices *)

\* bulk_insert has been called for a batch of records
BulkInserted == last.op = "bulk_insert" /\ last.records # <<>>

\* the record is the content of a row of land_prices
BulkStored(record) ==
    \E row \in land_prices :
        /\ BulkConflicts(row, BulkRow(row.id, record))
        /\ row.original_address = Some(record.original_address)

\* C22: an error raised while one record of a batch is converted or written
\* never aborts the batch: the call does not raise, and every other record of
\* the batch is processed, so a record whose own write raises no error is
\* stored; a row whose conversion raises is skipped and the rows after it are
\* still converted.
C22_RecordErrorKeepsBatch ==
    /\ BulkInserted =>
           /\ ~last.raised
           /\ \A i \in 1..Len(last.records) :
                  last.records[i].choume_code \in last.schema.choume
                      => BulkStored(last.records[i])
    /\ last.op = "convert" =>
           \/ ConvertRaises(last.records[1])
           \/ converted # <<>> /\ converted[Len(converted)] = Convert(last.records[1])

\* the converting half of C22: a row whose conversion raises is skipped and
\* the rows converted before it are kept
ConversionErrorSkipsRow ==
    [][(last'.op = "convert" /\ last' # last)
         => \/ converted' = converted /\ ConvertRaises(last'.records[1])
            \/ converted' = Append(converted, Convert(last'.records[1]))]_vars

----------------------------------------------------------------------------
(* Claims about the year loop of main, checked under SpecMain and           *)
(* SpecMainFair                                                             *)

\* the years first..last in ascending order
RECURSIVE YearsFrom(_, _)
YearsFrom(first, final) ==
    IF first > final THEN <<>> ELSE <<first>> \o YearsFrom(first + 1, final)

Range(seq) == {seq[i] : i \in 1..Len(seq)}

\* C21: a failure that is fatal for one year marks only that year as failed:
\* the year is added to failed_years and to nothing else, the loop goes on
\* with the next year, and the stored rows of the other years are the same
\* after the failure.
C21_FailedYearOnly ==
    [][(main_run'.failed_years # main_run.failed_years)
         => /\ main_run'.failed_years = Append(main_run.failed_years, main_run.year)
            /\ main_run'.success_years = main_run.success_years
            /\ main_run'.total_imported = main_run.total_imported
            /\ main_run'.pc = "loop"
            /\ main_run'.year = main_run.year + 1
            /\ \A row \in land_prices_kokudo \cup land_prices_kokudo' :
                   row.survey_year # main_run.year
                       => row \in land_prices_kokudo /\ row \in land_prices_kokudo']_vars

\* a year has failed after a year was stored, and a later year has been
\* imported after the failure
C21_Witness ==
    /\ main_run.pc = "done"
    /\ \E stored, failed, later \in FileYears :
           /\ stored < failed /\ failed < later
           /\ stored \in Range(main_run.success_years)
           /\ failed \in Range(main_run.failed_years)
           /\ later \in Range(main_run.success_years)
           /\ \E row \in land_prices_kokudo : row.survey_year = stored
           /\ \E row \in land_prices_kokudo : row.survey_year = later

\* the loop has ended with every year attempted once, in ascending order, and
\* put on exactly one of the two lists
Completed ==
    /\ main_run.pc = "done"
    /\ main_run.attempted = YearsFrom(FirstYear, LastYear)
    /\ Range(main_run.success_years) \cap Range(main_run.failed_years) = {}
    /\ Range(main_run.success_years) \cup Range(main_run.failed_years)
           = FirstYear..LastYear
    /\ Len(main_run.success_years) + Len(main_run.failed_years)
           = LastYear - FirstYear + 1

\* C28: once the loop of main has started, it attempts the years 2000..2025
\* in strictly ascending order, each exactly once, terminates, and on
\* termination each of the 26 years is in exactly one of success_years and
\* failed_years.
C28_EveryYearOnceThenDone == (main_run.pc = "loop") ~> Completed

\* the order of the attempts while the loop runs: the years from 2000 up to
\* the year before the current one
AttemptsAscending ==
    main_run.pc = "loop" => main_run.attempted = YearsFrom(FirstYear, main_run.year - 1)

\* the run has ended with years on both lists
C28_Witness ==
    /\ Completed
    /\ Len(main_run.success_years) >= 2
    /\ Len(main_run.failed_years) >= 2

----------------------------------------------------------------------------
(* Claims about the order of the imports, checked under SpecOrder *)

\* the rows without the value the sequence gave them
WithoutId(rows) ==
    {[c \in DOMAIN r \ {"id"} |-> r[c]] : r \in rows}

\* the results of the two fetches are the same
SameResult == last.op = "fetch" => result = other_order.result

\* C27 as stated: for every order in which the same yearly inputs are
\* imported the stored rows are identical, and so are the history and the
\* change rates fetch computes.
C27_StoredRowsIdentical ==
    /\ land_prices_kokudo = other_order.rows
    /\ SameResult

\* C27 amended: for every order in which the same yearly inputs are imported
\* the stored rows are identical in every column but the id the sequence
\* assigns, and the history and the change rates fetch computes are
\* identical.
C27_OrderIndependent ==
    /\ WithoutId(land_prices_kokudo) = WithoutId(other_order.rows)
    /\ SameResult

\* three years imported in two different orders, and a series of three years
\* with a change rate that is not zero returned for both
C27_Witness ==
    /\ last.op = "fetch"
    /\ ~result.empty
    /\ Len(result.land_price_history) = 3
    /\ result.land_price_history[3].change # Zero
    /\ land_prices_kokudo # other_order.rows
    /\ result = other_order.result

----------------------------------------------------------------------------
(* Claims about concurrent import runs, checked under SpecConcurrent *)

\* both runs have committed
BothCommitted ==
    sessions # <<>> /\ \A s \in {1, 2} : sessions[s].pc = "committed"

\* the rows of land_prices_kokudo with the key of the record
KokudoRows(record) == {row \in land_prices_kokudo : Conflicts(row, record)}

\* the rows of land_prices for the year and the address of the entry
GeojsonRows(data) ==
    {row \in land_prices :
        ExistingMapGet({row}, DefaultYear,
                       normalize_address_multi(data.original_address)) # {}}

\* the two runs write the same key
SameKey ==
    IF sessions[1].program = "import_to_db"
    THEN Conflicts(InsertedRow(0, sessions[1].data), sessions[2].data)
    ELSE normalize_address_multi(sessions[1].data.original_address)
             = normalize_address_multi(sessions[2].data.original_address)

\* the row is the input of the run and nothing else
RowOfRun(row, s) ==
    IF sessions[s].program = "import_to_db"
    THEN row = InsertedRow(row.id, sessions[s].data)
    ELSE row = GeojsonRow(row.id, SessionMaster[1].code, DefaultYear, sessions[s].data)

\* C23: when two import runs write the same natural key at the same time,
\* then under every interleaving of their read, write and commit steps the
\* table ends with exactly one row for the key, and that row is the input of
\* one of the two runs: no duplicate, no lost row, no row that mixes columns
\* of both inputs.
C23_OneRowOfOneRun ==
    (BothCommitted /\ SameKey) =>
        LET rows == IF sessions[1].program = "import_to_db"
                    THEN KokudoRows(sessions[1].data)
                    ELSE GeojsonRows(sessions[1].data)
        IN /\ Cardinality(rows) = 1
           /\ \A row \in rows : \E s \in {1, 2} : RowOfRun(row, s)

\* the part of C23 that holds for import_to_db: its two runs leave exactly
\* one row for the key
UpsertLeavesOneRow ==
    (BothCommitted /\ SameKey /\ sessions[1].program = "import_to_db")
        => Cardinality(KokudoRows(sessions[1].data)) = 1

====
